---- MODULE Spec2Model ----
(***************************************************************************)
(* Model of the session memory store of EarlyInterventionAI                *)
(* (src/app/memory.py, class ConversationMemoryManager and the module      *)
(* level helpers).                                                         *)
(*                                                                         *)
(* Python lists are objects: get_memory returns the stored list itself and *)
(* add_message rebinds _sessions[session_id] to a new list when it trims.  *)
(* The model therefore keeps a heap of list objects; _sessions maps a      *)
(* session id to a reference into that heap.                               *)
(*                                                                         *)
(* The lexical retrieval path of src/app/rag.py (chunk_text,               *)
(* tokenize_simple, score_chunk and the ranking and assembly of            *)
(* retrieve_context) is modelled further down; a Python str is a sequence  *)
(* of one-character strings there.                                         *)
(***************************************************************************)
EXTENDS Integers, Sequences, FiniteSets, TLC

\* ---------------------------------------------------------------- bounds
\* longest text handed to chunk_text, and largest `size`
MaxTextLen == 7
MaxSize == 4
\* longest text handed to tokenize_simple and score_chunk
MaxTokenTextLen == 4
\* most chunks of a knowledge base, and largest budget, in retrieve_context
MaxChunks == 3
MaxBudget == 8
\* longest knowledge-base file read by retrieve_context
MaxKbLen == 2
\* most chunks the splitter makes of one file, and most documents in the
\* Chroma collection
MaxFileChunks == 2
MaxDocs == 4
\* max_history is drawn from 0..MaxHistoryBound at construction.
MaxHistoryBound == 2
\* add_message calls on one session since it was last empty (caps the run).
MaxAdds == 2

SessionIds == {"s1", "s2"}
Threads == {"t1", "t2"}
\* the (human_message, ai_message) inputs of add_message
Exchanges == {<<"u1", "a1">>, <<"u2", "a2">>}
\* the exchange each concurrent caller adds
ThreadExchange == [t \in Threads |-> IF t = "t1" THEN <<"u1", "a1">> ELSE <<"u2", "a2">>]

\* Optional[str]: None, or a string (possibly the empty string)
None == [some |-> FALSE, val |-> ""]
Some(s) == [some |-> TRUE, val |-> s]
SystemPrompts == {None, Some(""), Some("sys")}

\* list objects: enough for every session plus every reference held outside
NoRef == 0
NumObjs == Cardinality(SessionIds) + Cardinality(Threads) + 2
ObjIds == 1..NumObjs

VARIABLES
  max_history,    \* self.max_history
  sessions,       \* self._sessions: session id -> list reference (NoRef: absent)
  heap,           \* list object -> its elements
  last,           \* the last call served: its name, arguments and returned list
  log,            \* history variable: exchanges added to a session since it was last empty
  pc,             \* position of each concurrent add_message call
  arg_sid,        \* session_id argument of each concurrent add_message call
  local_memory    \* the local `memory` of each concurrent add_message call

\* src/app/rag.py: the arguments, the position and the results of one call of
VARIABLES
  segmenter,      \* chunk_text
  scorer,         \* tokenize_simple and score_chunk
  retrieval,      \* retrieve_context
  builder         \* build_query

\* src/app/vector_store.py: the VectorStoreManager behind get_vector_store,
\* the external Chroma collection, and the calls in progress
VARIABLES
  vindex

\* src/app/main.py and the module globals: the chat request being served
\* and the process-wide manager behind get_memory_manager
VARIABLES
  app

MemVars == <<max_history, sessions, heap, last, log, pc, arg_sid, local_memory>>
RagVars == <<segmenter, scorer, retrieval, builder, vindex, app>>
vars == <<max_history, sessions, heap, last, log, pc, arg_sid, local_memory,
          segmenter, scorer, retrieval, builder, vindex, app>>

\* Optional[int] and Optional[str] arguments of rag.py (a str is the sequence
\* of its characters)
NoInt == [some |-> FALSE, val |-> 0]
SomeInt(n) == [some |-> TRUE, val |-> n]
NoStr == [some |-> FALSE, val |-> <<>>]
SomeStr(s) == [some |-> TRUE, val |-> s]

\* the files ingested into the vector store, and the callers of
\* initialize_vector_store_from_kb
Files == {"kb", "old"}
Callers == {"c1", "c2"}

\* no call of rag.py in progress
IdleSegmenter ==
  [pc |-> "idle", text |-> <<>>, size |-> 0, chunks |-> <<>>, groups |-> <<>>]
IdleScorer ==
  [pc |-> "idle", text |-> <<>>, query_tokens |-> {}, tokens |-> {}, score |-> 0,
   edit |-> "none", prev_tokens |-> {}, prev_score |-> 0]
IdleRetrieval ==
  [pc |-> "idle", chunks |-> <<>>, query_tokens |-> {}, budget |-> 0,
   scored_chunks |-> <<>>, context_parts |-> <<>>, accepted |-> <<>>,
   truncated |-> FALSE, stopped |-> FALSE, total_chars |-> 0, output |-> <<>>,
   kb_file |-> [kind |-> "missing", text |-> <<>>], kb_text |-> <<>>,
   age_months |-> NoInt, domain |-> NoStr, extra_info |-> NoStr,
   query |-> <<>>, raised |-> FALSE]
IdleBuilder ==
  [pc |-> "idle", age_months |-> NoInt, domain |-> NoStr, extra_info |-> NoStr,
   query |-> <<>>]
\* no VectorStoreManager call made yet, the store not loaded
NoVectorCall ==
  [op |-> "none", file |-> "kb", result |-> 0, raised |-> FALSE,
   was_none |-> FALSE, external_raised |-> FALSE, up |-> TRUE, mid_reindex |-> FALSE]
IdleVindex ==
  [up |-> TRUE, vector_store |-> "None", collection |-> [f \in Files |-> 0],
   file_chunks |-> [f \in Files |-> 0], last |-> NoVectorCall,
   pc |-> [c \in Callers |-> "idle"], result |-> [c \in Callers |-> 0]]

\* largest age_months the endpoints let through (0 <= age_months <= 36)
MaxAgeMonths == 36

\* no chat request served yet
NoRequest ==
  [message |-> "", session_id |-> [some |-> FALSE, val |-> ""],
   age_months |-> NoInt, domains |-> NoStr]
NoOutcomes ==
  [uuid |-> "s1", context |-> "", model_ok |-> TRUE, invoke_ok |-> TRUE, response |-> ""]
IdleTurn ==
  [pc |-> "idle", request |-> NoRequest, outcomes |-> NoOutcomes, status |-> 0,
   session_id |-> "s1", response |-> "", handed |-> <<>>, invoked |-> FALSE,
   stored |-> FALSE, before |-> <<>>]

\* ------------------------------------------------------------ list values
UserMsg(content) == [role |-> "user", content |-> content]
AssistantMsg(content) == [role |-> "assistant", content |-> content]
SystemMsg(content) == [role |-> "system", content |-> content]

\* Python's seq[start:] for any integer start (negative counts from the end;
\* note that -0 is 0, so seq[-0:] is the whole list).
PySliceFrom(seq, start) ==
  LET n == Len(seq)
      from == IF start < 0 THEN (IF n + start < 0 THEN 0 ELSE n + start)
              ELSE (IF start > n THEN n ELSE start)
  IN SubSeq(seq, from + 1, n)

\* Python truthiness of an Optional[str]
Truthy(p) == p.some /\ p.val # ""

\* ------------------------------------------------------------------- heap
Store == [sessions |-> sessions, heap |-> heap]
Refs(st) == {st.sessions[s] : s \in SessionIds} \ {NoRef}
\* references held outside the store: the list returned by the last call
\* and the locals of the calls in progress
Held == ({last.ref} \cup {local_memory[t] : t \in Threads}) \ {NoRef}
\* a new list object: the least id nothing refers to
Fresh(used) == CHOOSE o \in ObjIds \ used : \A p \in ObjIds \ used : o <= p

\* Object identity carries no meaning beyond "same list or not", so after every
\* step the live lists are renumbered in the order in which the references to
\* them are met (sessions, then locals, then the returned list), and a list
\* nothing refers to no longer exists (reference counting).
SessionSeq == <<"s1", "s2">>
ThreadSeq == <<"t1", "t2">>
RootSeq(sess, loc, ref) ==
  [i \in 1..Len(SessionSeq) |-> sess[SessionSeq[i]]]
    \o [i \in 1..Len(ThreadSeq) |-> loc[ThreadSeq[i]]] \o <<ref>>
\* the renumbering of the lists met in rs[i..]: old id -> new id, given the
\* renumbering m of those met before
RECURSIVE Renumber(_, _, _)
Renumber(rs, i, m) ==
  IF i > Len(rs) THEN m
  ELSE IF rs[i] \in DOMAIN m THEN Renumber(rs, i + 1, m)
  ELSE Renumber(rs, i + 1, m @@ (rs[i] :> Cardinality(DOMAIN m)))
Renumbering(rs) == Renumber(rs, 1, NoRef :> NoRef)
Compact(h, m) ==
  [n \in ObjIds |->
     IF \E o \in DOMAIN m : m[o] = n
     THEN h[CHOOSE o \in DOMAIN m : m[o] = n]
     ELSE <<>>]

\* ------------------------------------------------- ConversationMemoryManager
\* the store right after construction
InitStore == [sessions |-> [s \in SessionIds |-> NoRef], heap |-> [o \in ObjIds |-> <<>>]]
IsActive(st, sid) == st.sessions[sid] # NoRef
HistoryOf(st, sid) == IF IsActive(st, sid) THEN st.heap[st.sessions[sid]] ELSE <<>>
History(sid) == HistoryOf(Store, sid)

\* get_memory without its membership test: the session is rebound to a new
\* list on every call
get_memory_no_test(st, sid) ==
  LET o == Fresh(Refs(st) \cup Held)
  IN [st  |-> [sessions |-> [st.sessions EXCEPT ![sid] = o],
               heap     |-> [st.heap EXCEPT ![o] = <<>>]],
      ref |-> o]

\* get_memory: [st |-> store after the call, ref |-> the list returned]
get_memory(st, sid) ==
  IF st.sessions[sid] = NoRef
  THEN LET o == Fresh(Refs(st) \cup Held)
       IN [st  |-> [sessions |-> [st.sessions EXCEPT ![sid] = o],
                    heap     |-> [st.heap EXCEPT ![o] = <<>>]],
           ref |-> o]
  ELSE [st |-> st, ref |-> st.sessions[sid]]

\* the two appends of add_message, on the list `memory` refers to
append_user(st, memory, human_message) ==
  [st EXCEPT !.heap[memory] = Append(@, UserMsg(human_message))]
append_assistant(st, memory, ai_message) ==
  [st EXCEPT !.heap[memory] = Append(@, AssistantMsg(ai_message))]
\* the length test of add_message
exceeds(st, memory, mh) == Len(st.heap[memory]) > mh * 2
\* the trim off by one: memory[-(self.max_history * 2 + 1):]
trim_off_by_one(st, sid, memory, mh) ==
  LET o == Fresh(Refs(st) \cup Held \cup {memory})
  IN [sessions |-> [st.sessions EXCEPT ![sid] = o],
      heap     |-> [st.heap EXCEPT ![o] = PySliceFrom(st.heap[memory], -(mh * 2 + 1))]]

\* the trim of add_message: a new list, bound to the session id
trim(st, sid, memory, mh) ==
  LET o == Fresh(Refs(st) \cup Held \cup {memory})
  IN [sessions |-> [st.sessions EXCEPT ![sid] = o],
      heap     |-> [st.heap EXCEPT ![o] = PySliceFrom(st.heap[memory], -(mh * 2))]]

\* add_message as one call: the store after it
add_message(st, sid, human_message, ai_message, mh) ==
  LET g == get_memory(st, sid)
      memory == g.ref
      st2 == append_assistant(append_user(g.st, memory, human_message), memory, ai_message)
  IN IF exceeds(st2, memory, mh) THEN trim(st2, sid, memory, mh) ELSE st2

\* get_history that creates nothing: self._sessions.get(session_id, [])
get_history_without_create(st, sid) ==
  IF st.sessions[sid] = NoRef
  THEN LET o == Fresh(Refs(st) \cup Held)
       IN [st |-> [st EXCEPT !.heap[o] = <<>>], ref |-> o]
  ELSE [st |-> st, ref |-> st.sessions[sid]]

\* get_history and the module-level get_session_history delegate to get_memory
get_history(st, sid) == get_memory(st, sid)
get_session_history(st, sid) == get_history(st, sid)

\* get_history_text: the history as "User: ..." and "Assistant: ..." lines
\* (joined with a blank line); entries of another role are left out
HistoryLine(msg) ==
  <<IF msg.role = "user" THEN "User: " ELSE "Assistant: ", msg.content>>
IsTurn(msg) == msg.role \in {"user", "assistant"}
get_history_text(st, sid) ==
  LET g == get_history(st, sid)
      history == SelectSeq(g.st.heap[g.ref], IsTurn)
  IN [st |-> g.st, ref |-> NoRef,
      text |-> [i \in 1..Len(history) |-> HistoryLine(history[i])]]

\* clear_session emptying the session table instead: self._sessions.clear()
clear_session_drops_all(st, sid) ==
  IF st.sessions[sid] # NoRef
  THEN [st EXCEPT !.sessions = [s \in SessionIds |-> NoRef]]
  ELSE st

clear_session(st, sid) ==
  IF st.sessions[sid] # NoRef
  THEN [st EXCEPT !.heap[st.sessions[sid]] = <<>>]
  ELSE st

\* delete_session that only empties the list and keeps the key
delete_session_keeps_key(st, sid) ==
  IF st.sessions[sid] # NoRef
  THEN [st EXCEPT !.heap[st.sessions[sid]] = <<>>]
  ELSE st

delete_session(st, sid) ==
  IF st.sessions[sid] # NoRef
  THEN [st EXCEPT !.sessions[sid] = NoRef]
  ELSE st

get_session_count(st) == Cardinality({s \in SessionIds : st.sessions[s] # NoRef})
get_session_ids(st) == {s \in SessionIds : st.sessions[s] # NoRef}

\* get_context_for_llm testing include_system alone: a system message is
\* prepended whatever system_prompt is
get_context_for_llm_any_prompt(st, sid, include_system, system_prompt) ==
  LET head == IF include_system
              THEN <<SystemMsg(system_prompt.val)>> ELSE <<>>
      g == get_history(st, sid)
      messages == Fresh(Refs(g.st) \cup Held)
  IN [st  |-> [g.st EXCEPT !.heap[messages] = head \o g.st.heap[g.ref]],
      ref |-> messages]

\* get_context_for_llm handing out the stored list when there is nothing to
\* prepend: messages = history
get_context_for_llm_sharing(st, sid, include_system, system_prompt) ==
  LET head == IF include_system /\ Truthy(system_prompt)
              THEN <<SystemMsg(system_prompt.val)>> ELSE <<>>
      g == get_history(st, sid)
      messages == Fresh(Refs(g.st) \cup Held)
  IN IF head = <<>> THEN g
     ELSE [st  |-> [g.st EXCEPT !.heap[messages] = head \o g.st.heap[g.ref]],
           ref |-> messages]

\* get_context_for_llm: a new list `messages`; [st, ref] as get_memory
get_context_for_llm(st, sid, include_system, system_prompt) ==
  LET head == IF include_system /\ Truthy(system_prompt)
              THEN <<SystemMsg(system_prompt.val)>> ELSE <<>>
      g == get_history(st, sid)
      messages == Fresh(Refs(g.st) \cup Held)
  IN [st  |-> [g.st EXCEPT !.heap[messages] = head \o g.st.heap[g.ref]],
      ref |-> messages]

\* module-level get_llm_context
get_llm_context(st, sid, system_prompt) ==
  get_context_for_llm(st, sid, system_prompt.some, system_prompt)

\* the module global _memory_manager (0: None) and the
\* ConversationMemoryManager instances made so far; no call of the module
\* level helpers in progress
NoInstance == 0
Instances == 1..Cardinality(Threads)
IdleSingleton ==
  [memory_manager |-> NoInstance, created |-> 0,
   stores |-> [i \in Instances |-> InitStore],
   pc |-> [t \in Threads |-> "idle"], manager |-> [t \in Threads |-> NoInstance],
   sid |-> [t \in Threads |-> "s1"], context |-> [t \in Threads |-> <<>>]]
IdleApp == [turn |-> IdleTurn, singleton |-> IdleSingleton]

\* ---------------------------------------------------------------- actions
\* The record of a call: its name and arguments, the list it returned, whether
\* the session was active and how long its history was when the call began, and
\* what the caller has done with the returned list since ("kept": nothing).
Call(op, sid, inc, prompt, ref) ==
  [op |-> op, sid |-> sid, include_system |-> inc, system_prompt |-> prompt, ref |-> ref,
   was_active |-> sessions[sid] # NoRef, pre_len |-> Len(History(sid)),
   holder |-> "kept"]

NoCall ==
  [op |-> "none", sid |-> "s1", include_system |-> FALSE, system_prompt |-> None,
   ref |-> NoRef, was_active |-> FALSE, pre_len |-> 0, holder |-> "kept"]

\* the store, the locals and the returned list after a step
Commit(st, call, loc) ==
  LET m == Renumbering(RootSeq(st.sessions, loc, call.ref))
  IN /\ sessions' = [s \in SessionIds |-> m[st.sessions[s]]]
     /\ local_memory' = [t \in Threads |-> m[loc[t]]]
     /\ heap' = Compact(st.heap, m)
     /\ last' = [call EXCEPT !.ref = m[call.ref]]

Init ==
  /\ max_history \in 0..MaxHistoryBound
  /\ sessions = InitStore.sessions
  /\ heap = InitStore.heap
  /\ last = NoCall
  /\ log = [s \in SessionIds |-> <<>>]
  /\ pc = [t \in Threads |-> "idle"]
  /\ arg_sid = [t \in Threads |-> "s1"]
  /\ local_memory = [t \in Threads |-> NoRef]
  /\ segmenter = IdleSegmenter
  /\ scorer = IdleScorer
  /\ retrieval = IdleRetrieval
  /\ builder = IdleBuilder
  /\ vindex = IdleVindex
  /\ app = IdleApp

ThreadVars == <<pc, arg_sid>>

AddMessage(sid, ex) ==
  /\ Len(log[sid]) < MaxAdds
  /\ Commit(add_message(Store, sid, ex[1], ex[2], max_history),
            Call("add_message", sid, FALSE, None, NoRef), local_memory)
  /\ log' = [log EXCEPT ![sid] = Append(@, ex)]
  /\ UNCHANGED <<max_history, ThreadVars, RagVars>>

GetMemory(sid) ==
  /\ LET r == get_memory(Store, sid)
     IN Commit(r.st, Call("get_memory", sid, FALSE, None, r.ref), local_memory)
  /\ UNCHANGED <<max_history, log, ThreadVars, RagVars>>

GetHistory(sid) ==
  /\ LET r == get_history(Store, sid)
     IN Commit(r.st, Call("get_history", sid, FALSE, None, r.ref), local_memory)
  /\ UNCHANGED <<max_history, log, ThreadVars, RagVars>>

GetHistoryText(sid) ==
  /\ LET r == get_history_text(Store, sid)
     IN Commit(r.st, Call("get_history_text", sid, FALSE, None, r.ref), local_memory)
  /\ UNCHANGED <<max_history, log, ThreadVars, RagVars>>

GetSessionHistory(sid) ==
  /\ LET r == get_session_history(Store, sid)
     IN Commit(r.st, Call("get_session_history", sid, FALSE, None, r.ref), local_memory)
  /\ UNCHANGED <<max_history, log, ThreadVars, RagVars>>

ClearSession(sid) ==
  /\ Commit(clear_session(Store, sid), Call("clear_session", sid, FALSE, None, NoRef), local_memory)
  /\ log' = [log EXCEPT ![sid] = <<>>]
  /\ UNCHANGED <<max_history, ThreadVars, RagVars>>

DeleteSession(sid) ==
  /\ Commit(delete_session(Store, sid), Call("delete_session", sid, FALSE, None, NoRef), local_memory)
  /\ log' = [log EXCEPT ![sid] = <<>>]
  /\ UNCHANGED <<max_history, ThreadVars, RagVars>>

GetContextForLlm(sid, inc, prompt) ==
  /\ LET r == get_context_for_llm(Store, sid, inc, prompt)
     IN Commit(r.st, Call("get_context_for_llm", sid, inc, prompt, r.ref), local_memory)
  /\ UNCHANGED <<max_history, log, ThreadVars, RagVars>>

GetLlmContext(sid, prompt) ==
  /\ LET r == get_llm_context(Store, sid, prompt)
     IN Commit(r.st, Call("get_llm_context", sid, prompt.some, prompt, r.ref), local_memory)
  /\ UNCHANGED <<max_history, log, ThreadVars, RagVars>>

Next ==
  \/ \E sid \in SessionIds, ex \in Exchanges : AddMessage(sid, ex)
  \/ \E sid \in SessionIds : GetMemory(sid)
  \/ \E sid \in SessionIds : GetHistory(sid)
  \/ \E sid \in SessionIds : GetSessionHistory(sid)
  \/ \E sid \in SessionIds : GetHistoryText(sid)
  \/ \E sid \in SessionIds : ClearSession(sid)
  \/ \E sid \in SessionIds : DeleteSession(sid)
  \/ \E sid \in SessionIds, inc \in BOOLEAN, p \in SystemPrompts : GetContextForLlm(sid, inc, p)
  \/ \E sid \in SessionIds, p \in SystemPrompts : GetLlmContext(sid, p)

Spec == Init /\ [][Next]_vars

\* ------------------------------------------- concurrent add_message calls
\* Each thread makes one add_message(arg_sid, ThreadExchange) call, one
\* statement at a time; nothing in memory.py serialises the calls.
SeqVars == <<max_history, last, log>>
Goto(t, label) == pc' = [pc EXCEPT ![t] = label]

TCall(t, sid) ==
  /\ pc[t] = "idle"
  /\ Goto(t, "check")
  /\ arg_sid' = [arg_sid EXCEPT ![t] = sid]
  /\ UNCHANGED <<sessions, heap, local_memory, SeqVars, RagVars>>

\* get_memory: if session_id not in self._sessions
TCheck(t) ==
  /\ pc[t] = "check"
  /\ Goto(t, IF sessions[arg_sid[t]] = NoRef THEN "create" ELSE "load")
  /\ UNCHANGED <<sessions, heap, local_memory, arg_sid, SeqVars, RagVars>>

\* get_memory: self._sessions[session_id] = []
TCreate(t) ==
  /\ pc[t] = "create"
  /\ LET o == Fresh(Refs(Store) \cup Held)
         st == [sessions |-> [sessions EXCEPT ![arg_sid[t]] = o],
                heap     |-> [heap EXCEPT ![o] = <<>>]]
     IN Commit(st, last, local_memory)
  /\ Goto(t, "load")
  /\ UNCHANGED <<max_history, log, arg_sid, RagVars>>

\* get_memory: return self._sessions[session_id], bound to the local `memory`
TLoad(t) ==
  /\ pc[t] = "load"
  /\ Commit(Store, last, [local_memory EXCEPT ![t] = sessions[arg_sid[t]]])
  /\ Goto(t, "append_user")
  /\ UNCHANGED <<max_history, log, arg_sid, RagVars>>

TAppendUser(t) ==
  /\ pc[t] = "append_user"
  /\ Commit(append_user(Store, local_memory[t], ThreadExchange[t][1]), last, local_memory)
  /\ Goto(t, "append_assistant")
  /\ UNCHANGED <<max_history, log, arg_sid, RagVars>>

TAppendAssistant(t) ==
  /\ pc[t] = "append_assistant"
  /\ Commit(append_assistant(Store, local_memory[t], ThreadExchange[t][2]), last, local_memory)
  /\ Goto(t, "test")
  /\ UNCHANGED <<max_history, log, arg_sid, RagVars>>

\* if len(memory) > self.max_history * 2; when it is not, the call returns
TTest(t) ==
  /\ pc[t] = "test"
  /\ IF exceeds(Store, local_memory[t], max_history)
     THEN /\ Goto(t, "trim")
          /\ UNCHANGED <<sessions, heap, local_memory, last>>
     ELSE /\ Goto(t, "done")
          /\ Commit(Store, last, [local_memory EXCEPT ![t] = NoRef])
  /\ UNCHANGED <<max_history, log, arg_sid, RagVars>>

\* self._sessions[session_id] = memory[-(self.max_history * 2):]; the call returns
TTrim(t) ==
  /\ pc[t] = "trim"
  /\ Commit(trim(Store, arg_sid[t], local_memory[t], max_history), last,
            [local_memory EXCEPT ![t] = NoRef])
  /\ Goto(t, "done")
  /\ UNCHANGED <<max_history, log, arg_sid, RagVars>>

NextConc ==
  \/ \E t \in Threads, sid \in SessionIds : TCall(t, sid)
  \/ \E t \in Threads : TCheck(t)
  \/ \E t \in Threads : TCreate(t)
  \/ \E t \in Threads : TLoad(t)
  \/ \E t \in Threads : TAppendUser(t)
  \/ \E t \in Threads : TAppendAssistant(t)
  \/ \E t \in Threads : TTest(t)
  \/ \E t \in Threads : TTrim(t)

ConcSpec == Init /\ [][NextConc]_vars

\* ------------------------------------------ callers that keep a returned list
\* A caller may do with a list it was handed what Python lets it do: append
\* to it (as chat_endpoint does with the context list) or clear it.
HolderAppend(content) ==
  /\ last.ref # NoRef
  /\ last.holder = "kept"
  /\ heap' = [heap EXCEPT ![last.ref] = Append(@, UserMsg(content))]
  /\ last' = [last EXCEPT !.holder = "appended"]
  /\ UNCHANGED <<max_history, sessions, log, pc, arg_sid, local_memory, RagVars>>

HolderClear ==
  /\ last.ref # NoRef
  /\ last.holder = "kept"
  /\ heap' = [heap EXCEPT ![last.ref] = <<>>]
  /\ last' = [last EXCEPT !.holder = "cleared"]
  /\ UNCHANGED <<max_history, sessions, log, pc, arg_sid, local_memory, RagVars>>

\* the store serves calls until a caller touches the list it was handed; the
\* run ends with that one mutation
Untouched == last.holder = "kept"

NextAlias ==
  \/ \E sid \in SessionIds, ex \in Exchanges : Untouched /\ AddMessage(sid, ex)
  \/ \E sid \in SessionIds : Untouched /\ GetMemory(sid)
  \/ \E sid \in SessionIds : Untouched /\ GetHistory(sid)
  \/ \E sid \in SessionIds : Untouched /\ GetSessionHistory(sid)
  \/ \E sid \in SessionIds, p \in SystemPrompts : Untouched /\ GetContextForLlm(sid, TRUE, p)
  \/ \E sid \in SessionIds, p \in SystemPrompts : Untouched /\ GetLlmContext(sid, p)
  \/ \E content \in {"u1", "u2"} : HolderAppend(content)
  \/ HolderClear

AliasSpec == Init /\ [][NextAlias]_vars

\* ------------------------------------------- src/app/main.py: chat_endpoint
\* ConversationMemoryManager() as get_memory_manager constructs it
DefaultMaxHistory == 12

\* def chat_system_prompt(context), and the keywords chat_endpoint calls it with
ChatSystemPromptParameters == {"context"}
ChatSystemPromptKeywords == {"context", "age_months", "domain", "notes"}
\* a call by keyword raises TypeError unless every keyword is a parameter
accepts_keywords(parameters, keywords) == keywords \subseteq parameters
\* the prompt text returned, by whether RAG context was given
chat_system_prompt(context) ==
  IF context # "" THEN "prompt with context" ELSE "prompt without context"

\* not session_id.strip()
BlankId(session_id) == session_id \in {"", " "}

\* what a ChatRequest may hold, and what the surroundings of one turn do:
\* the uuid drawn, the text retrieve_context returns, whether get_chat_model
\* and llm.invoke return, and the text generated
ChatRequests ==
  [message : {"u1", "u2"},
   session_id : {None, Some(" "), Some("s1"), Some("s2")},
   age_months : {NoInt, SomeInt(-1), SomeInt(0), SomeInt(MaxAgeMonths + 1)},
   domains : {NoStr, SomeStr(<<>>), SomeStr(<<"motor">>)}]
ChatOutcomes ==
  [uuid : SessionIds, context : {"kb"}, model_ok : BOOLEAN,
   invoke_ok : BOOLEAN, response : {"a1"}]

\* the turn as it ends: the store, the HTTP status, the session id used, the
\* messages handed to llm.invoke (if it was called) and whether
\* add_to_memory was called
TurnEnd(st, status, session_id, response, handed, invoked, stored) ==
  [st |-> st, status |-> status, session_id |-> session_id, response |-> response,
   handed |-> handed, invoked |-> invoked, stored |-> stored]

\* chat_endpoint, lines 268-351
chat_endpoint(st, request, outcomes, mh) ==
  IF request.age_months.some
     /\ ~(0 <= request.age_months.val /\ request.age_months.val <= MaxAgeMonths)
  THEN TurnEnd(st, 400, outcomes.uuid, "", <<>>, FALSE, FALSE)
  ELSE
    LET session_id ==
          IF ~request.session_id.some \/ BlankId(request.session_id.val)
          THEN outcomes.uuid ELSE request.session_id.val
        context ==
          IF request.age_months.some /\ request.domains.some
             /\ Len(request.domains.val) > 0
          THEN outcomes.context ELSE ""
    IN IF ~accepts_keywords(ChatSystemPromptParameters, ChatSystemPromptKeywords)
       THEN TurnEnd(st, 500, session_id, "", <<>>, FALSE, FALSE)
       ELSE
         LET system_prompt == Some(chat_system_prompt(context))
             c == get_llm_context(st, session_id, system_prompt)
             messages == Append(c.st.heap[c.ref], UserMsg(request.message))
             held == [c.st EXCEPT !.heap[c.ref] = messages]
         IN IF ~outcomes.model_ok
            THEN TurnEnd(held, 500, session_id, "", <<>>, FALSE, FALSE)
            ELSE IF ~outcomes.invoke_ok
            THEN TurnEnd(held, 500, session_id, "", messages, TRUE, FALSE)
            ELSE TurnEnd(add_message(held, session_id, request.message,
                                     outcomes.response, mh),
                         200, session_id, outcomes.response, messages, TRUE, TRUE)

ChatInit ==
  /\ max_history = DefaultMaxHistory
  /\ sessions = InitStore.sessions
  /\ heap = InitStore.heap
  /\ last = NoCall
  /\ log = [s \in SessionIds |-> <<>>]
  /\ pc = [t \in Threads |-> "idle"]
  /\ arg_sid = [t \in Threads |-> "s1"]
  /\ local_memory = [t \in Threads |-> NoRef]
  /\ segmenter = IdleSegmenter
  /\ scorer = IdleScorer
  /\ retrieval = IdleRetrieval
  /\ builder = IdleBuilder
  /\ vindex = IdleVindex
  /\ app = IdleApp

\* one request served from its first line to its response
ChatEndpoint ==
  \E request \in ChatRequests, outcomes \in ChatOutcomes :
    LET r == chat_endpoint(Store, request, outcomes, max_history)
    IN /\ Commit(r.st, Call("chat_endpoint", r.session_id, FALSE, None, NoRef),
                 local_memory)
       /\ log' = IF r.stored
                 THEN [log EXCEPT ![r.session_id] =
                         Append(@, <<request.message, r.response>>)]
                 ELSE log
       /\ app' = [app EXCEPT !.turn =
                    [pc |-> "ended", request |-> request, outcomes |-> outcomes,
                     status |-> r.status, session_id |-> r.session_id,
                     response |-> r.response, handed |-> r.handed,
                     invoked |-> r.invoked, stored |-> r.stored,
                     before |-> [s \in SessionIds |-> History(s)]]]
       /\ UNCHANGED <<max_history, ThreadVars, segmenter, scorer, retrieval,
                      builder, vindex>>

ChatNext == ChatEndpoint

ChatSpec == ChatInit /\ [][ChatNext]_vars

\* ---------------------- get_memory_manager, add_to_memory, get_llm_context
\* Each thread calls add_to_memory(sid, ThreadExchange) and, once it has
\* returned, get_llm_context(sid); get_memory_manager runs one statement at
\* a time and nothing in memory.py serialises it.
SingletonGoto(t, label) == [app.singleton.pc EXCEPT ![t] = label]

\* add_to_memory called
MCall(t, sid) ==
  /\ app.singleton.pc[t] = "idle"
  /\ app' = [app EXCEPT !.singleton.pc = SingletonGoto(t, "test"),
                        !.singleton.sid[t] = sid]
  /\ UNCHANGED <<MemVars, segmenter, scorer, retrieval, builder, vindex>>

\* get_memory_manager: if _memory_manager is None
MTest(t) ==
  /\ app.singleton.pc[t] = "test"
  /\ app' = [app EXCEPT !.singleton.pc =
               SingletonGoto(t, IF app.singleton.memory_manager = NoInstance
                                THEN "create" ELSE "return")]
  /\ UNCHANGED <<MemVars, segmenter, scorer, retrieval, builder, vindex>>

\* get_memory_manager: _memory_manager = ConversationMemoryManager()
MCreate(t) ==
  /\ app.singleton.pc[t] = "create"
  /\ LET new == app.singleton.created + 1
     IN app' = [app EXCEPT !.singleton.pc = SingletonGoto(t, "return"),
                           !.singleton.created = new,
                           !.singleton.stores[new] = InitStore,
                           !.singleton.memory_manager = new]
  /\ UNCHANGED <<MemVars, segmenter, scorer, retrieval, builder, vindex>>

\* get_memory_manager: return _memory_manager, bound to the local `manager`
MReturn(t) ==
  /\ app.singleton.pc[t] = "return"
  /\ app' = [app EXCEPT !.singleton.pc = SingletonGoto(t, "add"),
                        !.singleton.manager[t] = app.singleton.memory_manager]
  /\ UNCHANGED <<MemVars, segmenter, scorer, retrieval, builder, vindex>>

\* add_to_memory: manager.add_message(session_id, human_message, ai_message)
MAddMessage(t) ==
  /\ app.singleton.pc[t] = "add"
  /\ LET i == app.singleton.manager[t]
     IN app' = [app EXCEPT
                  !.singleton.pc = SingletonGoto(t, "added"),
                  !.singleton.stores[i] =
                     add_message(@, app.singleton.sid[t], ThreadExchange[t][1],
                                 ThreadExchange[t][2], max_history)]
  /\ UNCHANGED <<MemVars, segmenter, scorer, retrieval, builder, vindex>>

\* a later get_llm_context(session_id): the manager is the one the global
\* names by then; the list returned is kept, the store keeps its sessions
MGetLlmContext(t) ==
  /\ app.singleton.pc[t] = "added"
  /\ LET i == app.singleton.memory_manager
         c == get_llm_context(app.singleton.stores[i], app.singleton.sid[t], None)
     IN app' = [app EXCEPT
                  !.singleton.pc = SingletonGoto(t, "done"),
                  !.singleton.context[t] = c.st.heap[c.ref],
                  !.singleton.stores[i] = [c.st EXCEPT !.heap[c.ref] = <<>>]]
  /\ UNCHANGED <<MemVars, segmenter, scorer, retrieval, builder, vindex>>

SingletonNext ==
  \/ \E t \in Threads, sid \in SessionIds : MCall(t, sid)
  \/ \E t \in Threads : MTest(t)
  \/ \E t \in Threads : MCreate(t)
  \/ \E t \in Threads : MReturn(t)
  \/ \E t \in Threads : MAddMessage(t)
  \/ \E t \in Threads : MGetLlmContext(t)

SingletonSpec == ChatInit /\ [][SingletonNext]_vars

\* ------------------------------------------------------------- properties
ReadOps == {"get_memory", "get_history", "get_session_history",
            "get_context_for_llm", "get_llm_context"}
Pair(ex) == <<UserMsg(ex[1]), AssistantMsg(ex[2])>>
\* the entries of a sequence of exchanges, in order
RECURSIVE Flatten(_)
Flatten(exs) == IF exs = <<>> THEN <<>> ELSE Pair(Head(exs)) \o Flatten(Tail(exs))
Min(a, b) == IF a < b THEN a ELSE b
\* the n most recent of a sequence of exchanges
MostRecent(exs, n) == SubSeq(exs, Len(exs) - Min(n, Len(exs)) + 1, Len(exs))

\* C1: between calls, every session's history holds at most 2 * max_history
\* entries, for every max_history >= 0.
HistoryLengthBound ==
  \A s \in SessionIds : Len(History(s)) <= 2 * max_history

\* C2: after N add_message calls on a fresh session the history has
\* min(2N, 2 * max_history) entries and is exactly the min(N, max_history) most
\* recent exchanges, in the order they were added.
FifoEviction ==
  \A s \in SessionIds :
    LET N == Len(log[s])
    IN /\ Len(History(s)) = Min(2 * N, 2 * max_history)
       /\ History(s) = Flatten(MostRecent(log[s], max_history))

\* C4: with max_history >= 1, every session history reachable through the
\* store's own operations has even length and alternates user, assistant,
\* starting with a user entry; no other role occurs.
RoleOrdering ==
  max_history >= 1 =>
    \A s \in SessionIds :
      LET h == History(s)
      IN /\ Len(h) % 2 = 0
         /\ \A i \in 1..Len(h) :
              h[i].role = (IF i % 2 = 1 THEN "user" ELSE "assistant")
\* a session whose oldest exchange has been evicted by a trim
RoleOrderingWitness ==
  /\ max_history >= 1
  /\ last.op = "add_message"
  /\ Len(log[last.sid]) > max_history
  /\ Len(History(last.sid)) = 2 * max_history

\* C3: when two concurrent add_message calls on one session id have both
\* returned (and max_history leaves room for both), the history holds both
\* exchanges, each user entry directly followed by its own assistant entry.
AtomicExchanges ==
  ( /\ \A t \in Threads : pc[t] = "done"
    /\ arg_sid["t1"] = arg_sid["t2"]
    /\ max_history >= 2 )
  => History(arg_sid["t1"]) \in
       { Pair(ThreadExchange["t1"]) \o Pair(ThreadExchange["t2"]),
         Pair(ThreadExchange["t2"]) \o Pair(ThreadExchange["t1"]) }

\* C5: get_llm_context returns the system message followed by the history
\* whenever system_prompt is not None, and the history alone when it is None.
ContextWithPrompt ==
  last.op = "get_llm_context" =>
    heap[last.ref] =
      (IF last.system_prompt.some THEN <<SystemMsg(last.system_prompt.val)>> ELSE <<>>)
        \o History(last.sid)

\* C6: get_memory on an absent session makes it active with an empty history
\* and touches no other session; on an active session it changes nothing; a
\* second call leaves the store as the first left it and returns the same list.
GetMemoryIdempotent ==
  /\ \A s \in SessionIds :
       LET once == get_memory(Store, s)
           twice == get_memory(once.st, s)
       IN /\ twice.st = once.st
          /\ twice.ref = once.ref
          /\ IsActive(once.st, s)
          /\ once.ref = once.st.sessions[s]
          /\ IsActive(Store, s) => once.st = Store
          /\ ~IsActive(Store, s) =>
               /\ HistoryOf(once.st, s) = <<>>
               /\ get_session_ids(once.st) = get_session_ids(Store) \cup {s}
               /\ \A o \in SessionIds \ {s} : HistoryOf(once.st, o) = History(o)
  /\ last.op = "get_memory" =>
       /\ IsActive(Store, last.sid)
       /\ last.ref = sessions[last.sid]
       /\ Len(History(last.sid)) = last.pre_len
\* get_memory has served an active session that holds a history
GetMemoryIdempotentWitness ==
  /\ last.op = "get_memory"
  /\ last.was_active
  /\ last.pre_len > 0
  /\ Len(History(last.sid)) = last.pre_len

\* C7: get_context_for_llm with system_prompt None returns the empty list for
\* a session that did not exist, and for one get_memory has just created.
AbsentSessionEmptyContext ==
  /\ ( /\ last.op \in {"get_context_for_llm", "get_llm_context"}
       /\ ~last.was_active
       /\ last.system_prompt = None )
     => heap[last.ref] = <<>>
  /\ \A s \in SessionIds, inc \in BOOLEAN :
       ~IsActive(Store, s) =>
         LET g == get_memory(Store, s)
             c == get_context_for_llm(g.st, s, inc, None)
         IN c.st.heap[c.ref] = <<>>
\* get_context_for_llm(id, system_prompt=None) has served an absent session
\* while another session holds a history
AbsentSessionEmptyContextWitness ==
  /\ last.op = "get_context_for_llm"
  /\ last.include_system
  /\ last.system_prompt = None
  /\ ~last.was_active
  /\ heap[last.ref] = <<>>
  /\ \E o \in SessionIds \ {last.sid} : Len(History(o)) > 0

\* C8: clear_session leaves the session's history empty, keeps the set (and
\* so the count) of active sessions, and every other session's history; on
\* an absent session it creates nothing.
ClearSessionFrame ==
  [][ \A s \in SessionIds :
        (last'.op = "clear_session" /\ last'.sid = s) =>
           /\ History(s)' = <<>>
           /\ get_session_ids(Store)' = get_session_ids(Store)
           /\ get_session_count(Store)' = get_session_count(Store)
           /\ \A o \in SessionIds \ {s} : History(o)' = History(o) ]_vars
\* clear_session has emptied a history while another session holds one
ClearSessionFrameWitness ==
  /\ last.op = "clear_session"
  /\ last.was_active
  /\ last.pre_len > 0
  /\ sessions[last.sid] # NoRef
  /\ History(last.sid) = <<>>
  /\ \E o \in SessionIds \ {last.sid} : Len(History(o)) > 0

\* C9: delete_session removes the id from the active sessions (the count drops
\* by one if it was active, nothing changes if it was absent), keeps every
\* other session's history, and an add_message on the id afterwards leaves
\* what it leaves on a new store.
DeleteSessionFrame ==
  /\ [][ \A s \in SessionIds :
          (last'.op = "delete_session" /\ last'.sid = s) =>
             /\ get_session_ids(Store)' = get_session_ids(Store) \ {s}
             /\ get_session_count(Store)' =
                  get_session_count(Store) - (IF IsActive(Store, s) THEN 1 ELSE 0)
             /\ \A o \in SessionIds \ {s} : History(o)' = History(o) ]_vars
  /\ [][ \A s \in SessionIds, ex \in Exchanges :
          ( /\ last.op = "delete_session" /\ last.sid = s
            /\ last'.op = "add_message" /\ last'.sid = s
            /\ log' = [log EXCEPT ![s] = <<ex>>] ) =>
             History(s)' = HistoryOf(add_message(InitStore, s, ex[1], ex[2], max_history), s) ]_vars
  /\ [](\A s \in SessionIds, ex \in Exchanges :
          HistoryOf(add_message(delete_session(Store, s), s, ex[1], ex[2], max_history), s)
            = HistoryOf(add_message(InitStore, s, ex[1], ex[2], max_history), s))
\* delete_session has removed a session that held a history while another
\* session holds one
DeleteSessionFrameWitness ==
  /\ last.op = "delete_session"
  /\ last.was_active
  /\ last.pre_len > 0
  /\ sessions[last.sid] = NoRef
  /\ \E o \in SessionIds \ {last.sid} : Len(History(o)) > 0

\* C10: whatever a caller does to the list a read operation returned, the
\* history stored for every session stays as it was.
ExclusiveOwnership ==
  [][ (last.op \in ReadOps /\ last.holder = "kept" /\ last'.holder # "kept") =>
        \A s \in SessionIds : History(s)' = History(s) ]_vars

ContextOps == {"get_context_for_llm", "get_llm_context"}
\* C34: the list get_context_for_llm / get_llm_context returns is no
\* session's stored list, and appending a user message to it, as
\* chat_endpoint does, leaves every stored history as it was, with or
\* without a system prompt.
ContextIsFreshCopy ==
  /\ [](last.op \in ContextOps /\ last.holder = "kept" =>
          /\ last.ref # NoRef
          /\ last.ref \notin Refs(Store))
  /\ [][ (last.op \in ContextOps /\ last.holder = "kept" /\ last'.holder = "appended") =>
           /\ \A s \in SessionIds : History(s)' = History(s)
           /\ sessions' = sessions ]_vars
\* a user message appended to the context of a session that holds a
\* history, no system message in front of it
ContextIsFreshCopyWitness ==
  /\ last.op \in ContextOps
  /\ last.holder = "appended"
  /\ ~Truthy(last.system_prompt)
  /\ last.pre_len > 0
  /\ Len(History(last.sid)) = last.pre_len
  /\ Len(heap[last.ref]) = last.pre_len + 1

ActivatingReads ==
  {"get_history", "get_history_text", "get_session_history", "get_context_for_llm"}
\* C35: get_history, get_history_text, get_session_history and
\* get_context_for_llm on an absent session id make it active with an empty
\* history, the session count growing by one; and no call but delete_session
\* makes an active session absent.
ReadsActivateSessions ==
  [][ /\ \A s \in SessionIds :
           (last'.op \in ActivatingReads /\ last'.sid = s /\ ~IsActive(Store, s)) =>
              /\ IsActive(Store, s)'
              /\ History(s)' = <<>>
              /\ get_session_ids(Store)' = get_session_ids(Store) \cup {s}
              /\ get_session_count(Store)' = get_session_count(Store) + 1
      /\ last'.op # "delete_session" =>
           /\ get_session_ids(Store) \subseteq get_session_ids(Store)'
           /\ get_session_count(Store)' >= get_session_count(Store) ]_vars
\* get_history_text has made an absent session active while another session
\* holds a history
ReadsActivateSessionsWitness ==
  /\ last.op = "get_history_text"
  /\ ~last.was_active
  /\ IsActive(Store, last.sid)
  /\ History(last.sid) = <<>>
  /\ get_session_count(Store) = 2
  /\ \E o \in SessionIds \ {last.sid} : Len(History(o)) > 0

\* --------------------------------------------- properties of chat_endpoint
\* the request passes the age check of chat_endpoint
ValidRequest(request) ==
  ~request.age_months.some
  \/ (0 <= request.age_months.val /\ request.age_months.val <= MaxAgeMonths)
\* the history after one exchange is added to it
WithExchange(history, human_message, ai_message, mh) ==
  LET full == history \o Pair(<<human_message, ai_message>>)
      keep == Min(Len(full), 2 * mh)
  IN SubSeq(full, Len(full) - keep + 1, Len(full))

\* C33: a turn that ends in an error leaves every history as it was; a turn
\* with a valid request whose generation call returns ends with status 200
\* and exactly one exchange appended (the request message as user, the
\* generated text as assistant); the list handed to the generation call is
\* the system message, the stored history and the current user message, at
\* most 2 * max_history + 2 entries.
ChatTurnAndHistory ==
  app.turn.pc = "ended" =>
    LET t == app.turn
        sid == t.session_id
    IN /\ t.status # 200 => \A s \in SessionIds : History(s) = t.before[s]
       /\ (ValidRequest(t.request) /\ t.outcomes.model_ok /\ t.outcomes.invoke_ok) =>
            /\ t.status = 200
            /\ t.invoked
            /\ History(sid) =
                 WithExchange(t.before[sid], t.request.message, t.outcomes.response,
                              max_history)
            /\ \A s \in SessionIds \ {sid} : History(s) = t.before[s]
            /\ Len(t.handed) = Len(t.before[sid]) + 2
            /\ t.handed[1].role = "system"
            /\ SubSeq(t.handed, 2, Len(t.handed) - 1) = t.before[sid]
            /\ t.handed[Len(t.handed)] = UserMsg(t.request.message)
            /\ Len(t.handed) <= 2 * max_history + 2

\* ---------------------------------------- properties of get_memory_manager
\* the exchange is in the list, the user entry directly before the assistant's
HoldsExchange(messages, ex) ==
  \E i \in 1..(Len(messages) - 1) :
    messages[i] = UserMsg(ex[1]) /\ messages[i + 1] = AssistantMsg(ex[2])

\* C36: at most one ConversationMemoryManager is ever created, every caller
\* is handed that instance, and the exchange a caller recorded with
\* add_to_memory is in what a later get_llm_context on the same session id
\* returns.
SingleStoreInstance ==
  /\ app.singleton.created <= 1
  /\ \A t \in Threads :
       app.singleton.manager[t] \in {NoInstance, app.singleton.memory_manager}
  /\ \A t \in Threads :
       app.singleton.pc[t] = "done" =>
         HoldsExchange(app.singleton.context[t], ThreadExchange[t])

\* ======================================================== src/app/rag.py
\* ------------------------------------------------------------ Python str
\* characters str.strip() and str.split() treat as whitespace
Whitespace == {" ", "\n", "\t", "\r"}
\* every str of at most n characters over an alphabet
Strings(alphabet, n) == UNION {[1..k -> alphabet] : k \in 0..n}
\* s[i:] with 0 <= i
Drop(s, i) == SubSeq(s, i + 1, Len(s))
\* s[:i] with 0 <= i
Take(s, i) == SubSeq(s, 1, IF i < Len(s) THEN i ELSE Len(s))
StartsWith(s, prefix) ==
  Len(prefix) <= Len(s) /\ SubSeq(s, 1, Len(prefix)) = prefix
IsBlank(s) == \A i \in 1..Len(s) : s[i] \in Whitespace

RECURSIVE LStrip(_)
LStrip(s) == IF s # <<>> /\ Head(s) \in Whitespace THEN LStrip(Tail(s)) ELSE s
RECURSIVE RStrip(_)
RStrip(s) ==
  IF s # <<>> /\ s[Len(s)] \in Whitespace THEN RStrip(SubSeq(s, 1, Len(s) - 1)) ELSE s
\* str.strip()
Strip(s) == RStrip(LStrip(s))

\* str.split(sep) for a non-empty sep: the pieces between the occurrences of
\* sep, met left to right; `piece` is the piece being read
RECURSIVE SplitFrom(_, _, _)
SplitFrom(s, sep, piece) ==
  IF s = <<>> THEN <<piece>>
  ELSE IF StartsWith(s, sep) THEN <<piece>> \o SplitFrom(Drop(s, Len(sep)), sep, <<>>)
  ELSE SplitFrom(Tail(s), sep, Append(piece, Head(s)))
Split(s, sep) == SplitFrom(s, sep, <<>>)

\* sep.join(parts)
RECURSIVE Join(_, _)
Join(sep, parts) ==
  IF parts = <<>> THEN <<>>
  ELSE IF Len(parts) = 1 THEN parts[1]
  ELSE parts[1] \o sep \o Join(sep, Tail(parts))

BlankLine == <<"\n", "\n">>
NewLine == <<"\n">>

\* -------------------------------------------------------------- chunk_text
\* text.split("\n\n"), or text.split("\n") when that gives one piece
Paragraphs(text) ==
  LET paragraphs == Split(text, BlankLine)
  IN IF Len(paragraphs) = 1 THEN Split(text, NewLine) ELSE paragraphs

\* para = para.strip() left undone
strip_para_undone(para) == para

\* para = para.strip()
strip_para(para) == Strip(para)

\* the size test with the separator's two characters left out
would_exceed_without_separator(current_chunk, para, size) ==
  current_chunk # <<>> /\ Len(current_chunk) + Len(para) > size

\* the size test with the paragraph's own length left out
would_exceed_without_para(current_chunk, para, size) ==
  current_chunk # <<>> /\ Len(current_chunk) + 2 > size

\* current_chunk and len(current_chunk) + len(para) + 2 > size
would_exceed(current_chunk, para, size) ==
  current_chunk # <<>> /\ Len(current_chunk) + Len(para) + 2 > size

\* One turn of the loop of chunk_text on paragraphs[i]. acc holds chunks and
\* current_chunk; groups and current_group record which paragraphs (by their
\* index in `paragraphs`) each chunk was built from.
chunk_step(acc, paragraphs, i, size) ==
  LET para == strip_para(paragraphs[i])
  IN IF para = <<>> THEN acc
     ELSE IF would_exceed(acc.current_chunk, para, size)
     THEN [chunks        |-> Append(acc.chunks, acc.current_chunk),
           groups        |-> Append(acc.groups, acc.current_group),
           current_chunk |-> para,
           current_group |-> <<i>>]
     ELSE [acc EXCEPT
             !.current_chunk = IF @ # <<>> THEN @ \o BlankLine \o para ELSE para,
             !.current_group = Append(@, i)]

RECURSIVE chunk_loop(_, _, _, _)
chunk_loop(acc, paragraphs, i, size) ==
  IF i > Len(paragraphs) THEN acc
  ELSE chunk_loop(chunk_step(acc, paragraphs, i, size), paragraphs, i + 1, size)

\* chunk_text without lines 94-95, the chunk still being built left out
chunk_text_without_rest(text, size) ==
  IF Strip(text) = <<>> THEN [chunks |-> <<>>, groups |-> <<>>]
  ELSE LET acc == chunk_loop([chunks |-> <<>>, groups |-> <<>>,
                              current_chunk |-> <<>>, current_group |-> <<>>],
                             Paragraphs(text), 1, size)
       IN [chunks |-> acc.chunks, groups |-> acc.groups]

\* chunk_text(text, size): [chunks |-> the list returned, groups |-> the
\* paragraphs each chunk was built from]
chunk_text(text, size) ==
  IF Strip(text) = <<>> THEN [chunks |-> <<>>, groups |-> <<>>]
  ELSE LET acc == chunk_loop([chunks |-> <<>>, groups |-> <<>>,
                              current_chunk |-> <<>>, current_group |-> <<>>],
                             Paragraphs(text), 1, size)
       IN IF acc.current_chunk # <<>>
          THEN [chunks |-> Append(acc.chunks, acc.current_chunk),
                groups |-> Append(acc.groups, acc.current_group)]
          ELSE [chunks |-> acc.chunks, groups |-> acc.groups]

\* the inputs of chunk_text
ChunkAlphabet == {"a", " ", "\n"}
ChunkTexts == Strings(ChunkAlphabet, MaxTextLen)
ChunkSizes == 0..MaxSize

\* everything but the one variable a call of rag.py works on
MemInit ==
  /\ max_history = 0
  /\ sessions = InitStore.sessions
  /\ heap = InitStore.heap
  /\ last = NoCall
  /\ log = [s \in SessionIds |-> <<>>]
  /\ pc = [t \in Threads |-> "idle"]
  /\ arg_sid = [t \in Threads |-> "s1"]
  /\ local_memory = [t \in Threads |-> NoRef]
  /\ vindex = IdleVindex
  /\ app = IdleApp

ChunkInit ==
  /\ MemInit
  /\ builder = IdleBuilder
  /\ segmenter \in {[IdleSegmenter EXCEPT !.pc = "called", !.text = t, !.size = n] :
                      t \in ChunkTexts, n \in ChunkSizes}
  /\ scorer = IdleScorer
  /\ retrieval = IdleRetrieval

ChunkText ==
  /\ segmenter.pc = "called"
  /\ LET r == chunk_text(segmenter.text, segmenter.size)
     IN segmenter' = [segmenter EXCEPT !.pc = "returned", !.chunks = r.chunks,
                                       !.groups = r.groups]
  /\ UNCHANGED <<MemVars, scorer, retrieval, builder, vindex, app>>

ChunkNext == ChunkText

ChunkSpec == ChunkInit /\ [][ChunkNext]_vars

\* --------------------------------------------- tokenize_simple, score_chunk
UpperCase == <<"A", "B", "C", "D", "E", "F", "G", "H", "I", "J", "K", "L", "M",
               "N", "O", "P", "Q", "R", "S", "T", "U", "V", "W", "X", "Y", "Z">>
LowerCase == <<"a", "b", "c", "d", "e", "f", "g", "h", "i", "j", "k", "l", "m",
               "n", "o", "p", "q", "r", "s", "t", "u", "v", "w", "x", "y", "z">>
IndexIn(letters, c) == CHOOSE i \in 1..Len(letters) : letters[i] = c
IsUpper(c) == \E i \in 1..Len(UpperCase) : UpperCase[i] = c
IsLower(c) == \E i \in 1..Len(LowerCase) : LowerCase[i] = c
\* str.lower()
Lower(text) ==
  [i \in 1..Len(text) |->
     IF IsUpper(text[i]) THEN LowerCase[IndexIn(UpperCase, text[i])] ELSE text[i]]
\* the other case of a letter
SwapCase(c) ==
  IF IsUpper(c) THEN LowerCase[IndexIn(UpperCase, c)]
  ELSE IF IsLower(c) THEN UpperCase[IndexIn(LowerCase, c)]
  ELSE c

\* the characters of ".,!?;:()[]{}\"'"
Punctuation == {".", ",", "!", "?", ";", ":", "(", ")", "[", "]", "{", "}", "\"", "'"}
\* for char in ...: text = text.replace(char, " ")
ReplacePunctuation(text) ==
  [i \in 1..Len(text) |-> IF text[i] \in Punctuation THEN " " ELSE text[i]]

\* str.split(): the maximal runs of non-whitespace characters, in order;
\* `word` is the run being read
RECURSIVE SplitWords(_, _)
SplitWords(s, word) ==
  IF s = <<>> THEN (IF word = <<>> THEN <<>> ELSE <<word>>)
  ELSE IF Head(s) \in Whitespace
  THEN (IF word = <<>> THEN <<>> ELSE <<word>>) \o SplitWords(Tail(s), <<>>)
  ELSE SplitWords(Tail(s), Append(word, Head(s)))
Words(s) == SplitWords(s, <<>>)
Range(seq) == {seq[i] : i \in 1..Len(seq)}

\* tokenize_simple without text.lower()
tokenize_simple_no_lower(text) == Range(Words(ReplacePunctuation(text)))

\* tokenize_simple(text)
tokenize_simple(text) == Range(Words(ReplacePunctuation(Lower(text))))

\* a score that counts every occurrence of a query token in the chunk
score_chunk_counting_repeats(query_tokens, chunk) ==
  Len(SelectSeq(Words(ReplacePunctuation(Lower(chunk))), LAMBDA w : w \in query_tokens))

\* score_chunk(query_tokens, chunk_text)
score_chunk(query_tokens, chunk) ==
  LET chunk_tokens == tokenize_simple(chunk)
      overlap == query_tokens \cap chunk_tokens
  IN Cardinality(overlap)

\* the inputs of tokenize_simple and score_chunk
TokenAlphabet == {"a", "A", "!", " "}
TokenTexts == Strings(TokenAlphabet, MaxTokenTextLen)
QueryTokenPool == {<<"a">>, <<"a", "a">>}
Space == <<" ">>

TokenInit ==
  /\ MemInit
  /\ builder = IdleBuilder
  /\ segmenter = IdleSegmenter
  /\ scorer \in {[IdleScorer EXCEPT !.pc = "called", !.text = t, !.query_tokens = q] :
                   t \in TokenTexts, q \in SUBSET QueryTokenPool}
  /\ retrieval = IdleRetrieval

\* the scorer after score_chunk on a text
Scored(sc, text, edit) ==
  [sc EXCEPT !.pc = IF edit = "none" THEN "scored" ELSE "rescored",
             !.text = text,
             !.edit = edit,
             !.prev_tokens = sc.tokens,
             !.prev_score = sc.score,
             !.tokens = tokenize_simple(text),
             !.score = score_chunk(sc.query_tokens, text)]

\* score_chunk(query_tokens, text)
ScoreChunk ==
  /\ scorer.pc = "called"
  /\ scorer' = Scored(scorer, scorer.text, "none")
  /\ UNCHANGED <<MemVars, segmenter, retrieval, builder, vindex, app>>

\* score_chunk on the tokens of the text joined by spaces, in any order and
\* with one token possibly repeated
Rejoin ==
  /\ scorer.pc = "scored"
  /\ \E n \in Cardinality(scorer.tokens)..(Cardinality(scorer.tokens) + 1) :
       \E order \in [1..n -> scorer.tokens] :
         /\ Range(order) = scorer.tokens
         /\ scorer' = Scored(scorer, Join(Space, order), "rejoin")
  /\ UNCHANGED <<MemVars, segmenter, retrieval, builder, vindex, app>>

\* score_chunk on the text with the case of one letter changed
EditCase ==
  /\ scorer.pc = "scored"
  /\ \E i \in 1..Len(scorer.text) :
       /\ SwapCase(scorer.text[i]) # scorer.text[i]
       /\ scorer' = Scored(scorer, [scorer.text EXCEPT ![i] = SwapCase(@)], "case")
  /\ UNCHANGED <<MemVars, segmenter, retrieval, builder, vindex, app>>

\* position i (between characters i and i + 1) is not inside a token
AtTokenEdge(text, i) ==
  IF i = 0 \/ i = Len(text) THEN TRUE
  ELSE \/ text[i] \in Whitespace \cup Punctuation
       \/ text[i + 1] \in Whitespace \cup Punctuation

\* score_chunk on the text with a punctuation character put at a token edge
EditPunctuation ==
  /\ scorer.pc = "scored"
  /\ \E i \in 0..Len(scorer.text), p \in Punctuation :
       /\ AtTokenEdge(scorer.text, i)
       /\ scorer' = Scored(scorer, Take(scorer.text, i) \o <<p>> \o Drop(scorer.text, i),
                           "punctuation")
  /\ UNCHANGED <<MemVars, segmenter, retrieval, builder, vindex, app>>

TokenNext == ScoreChunk \/ Rejoin \/ EditCase \/ EditPunctuation

TokenSpec == TokenInit /\ [][TokenNext]_vars

\* -------------------------------------------------------------- build_query

Digits == <<"0", "1", "2", "3", "4", "5", "6", "7", "8", "9">>
\* f"{n}" for an int
RECURSIVE Str(_)
Str(n) ==
  IF n < 0 THEN <<"-">> \o Str(0 - n)
  ELSE IF n < 10 THEN <<Digits[n + 1]>>
  ELSE Str(n \div 10) \o <<Digits[(n % 10) + 1]>>

\* str.replace(old, new) for one-character old
Replace(text, old, new) ==
  [i \in 1..Len(text) |-> IF text[i] = old THEN new ELSE text[i]]

\* an "s" already for one
plural_from_one(n) == IF n > 0 THEN <<"s">> ELSE <<>>

\* if n > 1: parts[-1] += "s"
plural(n) == IF n > 1 THEN <<"s">> ELSE <<>>

\* lines 156-170
age_parts(age_months) ==
  LET years == age_months \div 12
      months == age_months % 12
  IN (IF years > 0
      THEN <<Str(years) \o <<" ", "y", "e", "a", "r">> \o plural(years)>> ELSE <<>>)
     \o (IF months > 0
         THEN <<Str(months) \o <<" ", "m", "o", "n", "t", "h">> \o plural(months)>>
         ELSE <<>>)
     \o <<Str(age_months) \o <<" ", "m", "o", "n", "t", "h", "s">>>>

\* lines 172-176
domain_parts(domain) == <<domain, Replace(Lower(domain), "_", " ")>>

\* build_query(age_months, domain, extra_info); `if domain:` and
\* `if extra_info:` are false for None and for ""
build_query(age_months, domain, extra_info) ==
  LET parts == (IF age_months.some THEN age_parts(age_months.val) ELSE <<>>)
               \o (IF domain.some /\ domain.val # <<>>
                   THEN domain_parts(domain.val) ELSE <<>>)
               \o (IF extra_info.some /\ extra_info.val # <<>>
                   THEN <<extra_info.val>> ELSE <<>>)
  IN Join(Space, parts)

\* the inputs of build_query
QueryAges == {NoInt} \cup {SomeInt(n) : n \in 0..MaxAgeMonths}
QueryDomains == {NoStr, SomeStr(<<>>), SomeStr(<<"a">>), SomeStr(<<"G", "_", "m">>)}
QueryExtras == {NoStr, SomeStr(<<>>), SomeStr(<<"x", " ", "Y", "!">>)}

QueryInit ==
  /\ MemInit
  /\ segmenter = IdleSegmenter
  /\ scorer = IdleScorer
  /\ retrieval = IdleRetrieval
  /\ builder \in {[IdleBuilder EXCEPT !.pc = "called", !.age_months = a,
                                      !.domain = d, !.extra_info = e] :
                    a \in QueryAges, d \in QueryDomains, e \in QueryExtras}

BuildQuery ==
  /\ builder.pc = "called"
  /\ builder' = [builder EXCEPT
                   !.pc = "returned",
                   !.query = build_query(builder.age_months, builder.domain,
                                         builder.extra_info)]
  /\ UNCHANGED <<MemVars, segmenter, scorer, retrieval, vindex, app>>

QueryNext == BuildQuery

QuerySpec == QueryInit /\ [][QueryNext]_vars

\* -------------------------------------------------------- retrieve_context
\* for chunk in chunks: scored_chunks.append((score, chunk)); pos is the
\* chunk's place in the document, carried along to tell equal chunks apart
score_all(query_tokens, chunks) ==
  [i \in 1..Len(chunks) |->
     [score |-> score_chunk(query_tokens, chunks[i]), chunk |-> chunks[i], pos |-> i]]

\* x put into a list sorted by descending score, after the leading elements
\* that score at least as much
insert_after_ties(sorted, x) ==
  LET n == Cardinality({k \in 1..Len(sorted) :
                          \A j \in 1..k : sorted[j].score >= x.score})
  IN Take(sorted, n) \o <<x>> \o Drop(sorted, n)

\* x put into a list sorted by descending score, before the elements that
\* score as much
insert_before_ties(sorted, x) ==
  LET n == Cardinality({k \in 1..Len(sorted) :
                          \A j \in 1..k : sorted[j].score > x.score})
  IN Take(sorted, n) \o <<x>> \o Drop(sorted, n)

\* a descending sort that puts equal scores in reverse document order
RECURSIVE sort_reversing_ties(_)
sort_reversing_ties(scored) ==
  IF scored = <<>> THEN <<>>
  ELSE insert_before_ties(sort_reversing_ties(SubSeq(scored, 1, Len(scored) - 1)),
                          scored[Len(scored)])

\* scored_chunks.sort(key=lambda x: x[0], reverse=True): list.sort is stable,
\* and with reverse=True elements with equal keys keep their order
RECURSIVE sort_by_score(_)
sort_by_score(scored) ==
  IF scored = <<>> THEN <<>>
  ELSE insert_after_ties(sort_by_score(SubSeq(scored, 1, Len(scored) - 1)),
                         scored[Len(scored)])

\* a slice that cuts nothing
slice_whole(seq, stop) == seq

\* seq[:stop] for any integer stop
PySliceTo(seq, stop) ==
  IF stop >= 0 THEN Take(seq, stop)
  ELSE IF Len(seq) + stop > 0 THEN Take(seq, Len(seq) + stop)
  ELSE <<>>

Marker == <<".", ".", ".">>

\* a test that skips nothing
skip_nothing(score, context_parts) == FALSE

\* the skip without its second condition
skip_every_zero(score, context_parts) == score = 0

\* score == 0 and context_parts
skip_zero(score, context_parts) == score = 0 /\ context_parts # <<>>

\* a cut that leaves the marker off
truncate_bare(chunk, remaining) == PySliceTo(chunk, remaining)

\* chunk[:remaining] + "..."
truncate(chunk, remaining) == PySliceTo(chunk, remaining) \o Marker

\* a running total that counts the chunk's length only
add_length_only(total_chars, chunk_len) == total_chars + chunk_len

\* total_chars += chunk_len + 2
add_length(total_chars, chunk_len) == total_chars + chunk_len + 2

\* a candidate that does not fit passed over, the loop going on
pass_over_misfit(acc) == acc

\* lines 243-244: the candidate does not fit and something is accepted: break
stop_on_misfit(acc) == [acc EXCEPT !.stopped = TRUE]

\* One turn of the loop of retrieve_context on a (score, chunk); acc holds
\* context_parts and total_chars, the document positions of the accepted
\* chunks, whether the accepted chunk was cut, and whether a break was taken.
assemble_step(acc, cand, budget) ==
  IF skip_zero(cand.score, acc.context_parts) THEN acc
  ELSE LET chunk_len == Len(cand.chunk)
       IN IF acc.total_chars + chunk_len > budget
          THEN IF acc.context_parts = <<>>
               THEN LET remaining == budget - acc.total_chars
                    IN [acc EXCEPT
                          !.context_parts = Append(@, truncate(cand.chunk, remaining)),
                          !.accepted = Append(@, cand.pos),
                          !.truncated = TRUE,
                          !.stopped = TRUE]
               ELSE stop_on_misfit(acc)
          ELSE LET total == add_length(acc.total_chars, chunk_len)
               IN [acc EXCEPT
                     !.context_parts = Append(@, cand.chunk),
                     !.accepted = Append(@, cand.pos),
                     !.total_chars = total,
                     !.stopped = total >= budget]

RECURSIVE assemble_loop(_, _, _, _)
assemble_loop(acc, scored_chunks, i, budget) ==
  IF i > Len(scored_chunks) \/ acc.stopped THEN acc
  ELSE assemble_loop(assemble_step(acc, scored_chunks[i], budget), scored_chunks,
                     i + 1, budget)

\* lines 225-253: the loop and the value returned
assemble(scored_chunks, budget) ==
  LET acc == assemble_loop([context_parts |-> <<>>, total_chars |-> 0,
                            accepted |-> <<>>, truncated |-> FALSE, stopped |-> FALSE],
                           scored_chunks, 1, budget)
  IN [context_parts |-> acc.context_parts, total_chars |-> acc.total_chars,
      accepted |-> acc.accepted, truncated |-> acc.truncated, stopped |-> acc.stopped,
      output |-> Join(BlankLine, acc.context_parts)]

\* the inputs of the assembly: what chunk_text returned, the query's tokens
\* and the budget
ChunkPool ==
  {<<"a">>, <<"c">>, <<"a", " ", "b">>, <<"c", "c">>, <<"a", "a", "a", "a", " ", "b">>}
ChunkLists == UNION {[1..n -> ChunkPool] : n \in 0..MaxChunks}
QueryTokenSets == SUBSET {<<"a">>, <<"b">>}
Budgets == -1..MaxBudget

AssembleInit ==
  /\ MemInit
  /\ builder = IdleBuilder
  /\ segmenter = IdleSegmenter
  /\ scorer = IdleScorer
  /\ retrieval \in {[IdleRetrieval EXCEPT !.pc = "chunked", !.chunks = c,
                                          !.query_tokens = q, !.budget = b] :
                      c \in ChunkLists, q \in QueryTokenSets, b \in Budgets}

\* lines 213-220: no chunk, return ""; otherwise score all chunks
ScoreChunks ==
  /\ retrieval.pc = "chunked"
  /\ retrieval' =
       IF retrieval.chunks = <<>>
       THEN [retrieval EXCEPT !.pc = "returned", !.output = <<>>]
       ELSE [retrieval EXCEPT
               !.pc = "scored",
               !.scored_chunks = score_all(retrieval.query_tokens, retrieval.chunks)]
  /\ UNCHANGED <<MemVars, segmenter, scorer, builder, vindex, app>>

\* line 223
SortChunks ==
  /\ retrieval.pc = "scored"
  /\ retrieval' = [retrieval EXCEPT !.pc = "sorted",
                                    !.scored_chunks = sort_by_score(@)]
  /\ UNCHANGED <<MemVars, segmenter, scorer, builder, vindex, app>>

\* lines 225-253
Assemble ==
  /\ retrieval.pc = "sorted"
  /\ LET r == assemble(retrieval.scored_chunks, retrieval.budget)
     IN retrieval' = [retrieval EXCEPT !.pc = "returned",
                                       !.context_parts = r.context_parts,
                                       !.total_chars = r.total_chars,
                                       !.accepted = r.accepted,
                                       !.truncated = r.truncated,
                                       !.stopped = r.stopped,
                                       !.output = r.output]
  /\ UNCHANGED <<MemVars, segmenter, scorer, builder, vindex, app>>

AssembleNext == ScoreChunks \/ SortChunks \/ Assemble

AssembleSpec == AssembleInit /\ [][AssembleNext]_vars

\* ------------------------------------- retrieve_context, from its first line
\* chunk_text's default size
DefaultChunkSize == 1000

\* load_kb_text with only the FileNotFoundError handler
load_kb_text_uncaught(kb_file) ==
  IF kb_file.kind = "missing" THEN [raised |-> FALSE, text |-> <<>>]
  ELSE IF kb_file.kind = "unreadable" THEN [raised |-> TRUE, text |-> <<>>]
  ELSE [raised |-> FALSE, text |-> kb_file.text]

\* load_kb_text(): open() raises FileNotFoundError for a missing file and
\* another Exception (PermissionError, UnicodeDecodeError, ...) for one that
\* cannot be read; both handlers return ""
load_kb_text(kb_file) ==
  IF kb_file.kind = "missing" THEN [raised |-> FALSE, text |-> <<>>]
  ELSE IF kb_file.kind = "unreadable" THEN [raised |-> FALSE, text |-> <<>>]
  ELSE [raised |-> FALSE, text |-> kb_file.text]

\* the inputs of retrieve_context
KbAlphabet == {"a", "b", " ", "\n"}
KbFiles ==
  {[kind |-> k, text |-> <<>>] : k \in {"missing", "unreadable"}}
  \cup {[kind |-> "text", text |-> t] : t \in Strings(KbAlphabet, MaxKbLen)}
RetrieveAges == {NoInt, SomeInt(14)}
RetrieveDomains == {NoStr, SomeStr(<<"A">>)}
RetrieveExtras == {NoStr, SomeStr(<<"b">>)}

RetrieveInit ==
  /\ MemInit
  /\ builder = IdleBuilder
  /\ segmenter = IdleSegmenter
  /\ scorer = IdleScorer
  /\ retrieval \in {[IdleRetrieval EXCEPT !.pc = "called", !.kb_file = f,
                                          !.age_months = a, !.domain = d,
                                          !.extra_info = e, !.budget = b] :
                      f \in KbFiles, a \in RetrieveAges, d \in RetrieveDomains,
                      e \in RetrieveExtras, b \in Budgets}

\* lines 203-205
LoadKb ==
  /\ retrieval.pc = "called"
  /\ LET r == load_kb_text(retrieval.kb_file)
     IN retrieval' =
          IF r.raised THEN [retrieval EXCEPT !.pc = "raised", !.raised = TRUE]
          ELSE IF Strip(r.text) = <<>>
          THEN [retrieval EXCEPT !.pc = "returned", !.kb_text = r.text, !.output = <<>>]
          ELSE [retrieval EXCEPT !.pc = "loaded", !.kb_text = r.text]
  /\ UNCHANGED <<MemVars, segmenter, scorer, builder, vindex, app>>

\* lines 208-209
TokenizeQuery ==
  /\ retrieval.pc = "loaded"
  /\ LET query == build_query(retrieval.age_months, retrieval.domain,
                              retrieval.extra_info)
     IN retrieval' = [retrieval EXCEPT !.pc = "tokenized",
                                       !.query = query,
                                       !.query_tokens = tokenize_simple(query)]
  /\ UNCHANGED <<MemVars, segmenter, scorer, builder, vindex, app>>

\* line 212
ChunkKb ==
  /\ retrieval.pc = "tokenized"
  /\ retrieval' =
       [retrieval EXCEPT !.pc = "chunked",
                         !.chunks = chunk_text(retrieval.kb_text, DefaultChunkSize).chunks]
  /\ UNCHANGED <<MemVars, segmenter, scorer, builder, vindex, app>>

RetrieveNext ==
  LoadKb \/ TokenizeQuery \/ ChunkKb \/ ScoreChunks \/ SortChunks \/ Assemble

RetrieveSpec == RetrieveInit /\ [][RetrieveNext]_vars

\* =============================================== src/app/vector_store.py
\* The Chroma collection, the embedding model and the document loaders are
\* external: a call to them returns or raises. While `up` holds every such
\* call returns; otherwise each call may do either.
Outcomes(up) == IF up THEN {TRUE} ELSE BOOLEAN

\* self.vector_store._collection.count()
RECURSIVE CountOver(_, _)
CountOver(collection, files) ==
  IF files = {} THEN 0
  ELSE LET f == CHOOSE g \in files : TRUE
       IN collection[f] + CountOver(collection, files \ {f})
Count(collection) == CountOver(collection, Files)
Empty == [f \in Files |-> 0]

IngestOps == {"ingest_text_file", "ingest_pdf_file", "ingest_text_content"}
\* the result of a call: the manager and the collection after it, the value
\* returned, and whether the call raised
Returned(v, result) == [v |-> v, result |-> result, raised |-> FALSE]
Raised(v) == [v |-> v, result |-> 0, raised |-> TRUE]

\* _load_or_create_store(): both branches make Chroma(...); an exception
\* leaves vector_store None
load_or_create_store(v, load_ok) ==
  [v EXCEPT !.vector_store = IF load_ok THEN "Chroma" ELSE "None"]

\* the ingest methods without their except clause
ingest_uncaught(v, op, f, load_ok, add_ok) ==
  LET n == v.file_chunks[f]
  IN IF op # "ingest_text_content" /\ ~load_ok THEN Raised(v)
     ELSE IF v.vector_store # "None"
     THEN IF add_ok
          THEN Returned([v EXCEPT !.collection[f] = @ + n], n)
          ELSE Raised(v)
     ELSE Returned(v, 0)

\* ingest_text_file, ingest_pdf_file (the loader may raise) and
\* ingest_text_content (no loader): split, then add_documents if the store
\* is there; any exception gives 0
ingest(v, op, f, load_ok, add_ok) ==
  LET n == v.file_chunks[f]
  IN IF op # "ingest_text_content" /\ ~load_ok THEN Returned(v, 0)
     ELSE IF v.vector_store # "None"
     THEN IF add_ok
          THEN Returned([v EXCEPT !.collection[f] = @ + n], n)
          ELSE Returned(v, 0)
     ELSE Returned(v, 0)

\* semantic_search(query, k): the number of documents returned
semantic_search(v, k, search_ok) ==
  IF v.vector_store = "None" THEN Returned(v, 0)
  ELSE IF search_ok THEN Returned(v, Min(k, Count(v.collection)))
  ELSE Returned(v, 0)

\* VectorStoreManager.retrieve_context(query, k): the number of "[Context i]"
\* parts of the string returned; no part is the empty string
vector_retrieve_context(v, k, search_ok) ==
  LET documents == semantic_search(v, k, search_ok).result
  IN IF documents = 0 THEN Returned(v, 0) ELSE Returned(v, documents)

\* clear_store(): delete_collection() and _load_or_create_store() when the
\* store is there; an exception of delete_collection is printed and nothing
\* else is done
clear_store(v, delete_ok, load_ok) ==
  IF v.vector_store # "None"
  THEN IF delete_ok
       THEN Returned(load_or_create_store([v EXCEPT !.collection = Empty], load_ok), 0)
       ELSE Returned(v, 0)
  ELSE Returned(v, 0)

\* get_collection_count()
get_collection_count(v, count_ok) ==
  IF v.vector_store # "None"
  THEN IF count_ok THEN Returned(v, Count(v.collection)) ELSE Returned(v, 0)
  ELSE Returned(v, 0)

\* initialize_vector_store_from_kb(kb_file_path), the file's suffix given
Suffixes == {".pdf", ".txt", ".md", ".doc"}
ingest_by_suffix(v, suffix, f, load_ok, add_ok) ==
  IF suffix = ".pdf" THEN ingest(v, "ingest_pdf_file", f, load_ok, add_ok)
  ELSE IF suffix \in {".txt", ".md"} THEN ingest(v, "ingest_text_file", f, load_ok, add_ok)
  ELSE Returned(v, 0)
initialize_vector_store_from_kb(v, suffix, f, delete_ok, reload_ok, load_ok, add_ok) ==
  ingest_by_suffix(clear_store(v, delete_ok, reload_ok).v, suffix, f, load_ok, add_ok)

\* the manager after its construction; the collection persists on disk and
\* may hold documents of an earlier run
MemOnlyInit ==
  /\ max_history = 0
  /\ sessions = InitStore.sessions
  /\ heap = InitStore.heap
  /\ last = NoCall
  /\ log = [s \in SessionIds |-> <<>>]
  /\ pc = [t \in Threads |-> "idle"]
  /\ arg_sid = [t \in Threads |-> "s1"]
  /\ local_memory = [t \in Threads |-> NoRef]
  /\ segmenter = IdleSegmenter
  /\ scorer = IdleScorer
  /\ retrieval = IdleRetrieval
  /\ builder = IdleBuilder
  /\ app = IdleApp

Collections == {c \in [Files -> 0..MaxFileChunks] : Count(c) <= MaxDocs}

VectorInit ==
  /\ MemOnlyInit
  /\ vindex \in {[IdleVindex EXCEPT !.up = u, !.vector_store = s,
                                    !.collection = c, !.file_chunks = n] :
                   u \in BOOLEAN, s \in {"None", "Chroma"}, c \in Collections,
                   n \in {m \in [Files -> 0..MaxFileChunks] : m["kb"] > 0}}
  /\ vindex.up => vindex.vector_store = "Chroma"
  /\ vindex.vector_store = "None" => vindex.collection = Empty

\* the record of a call served
VectorCall(op, f, r, external_raised) ==
  [op |-> op, file |-> f, result |-> r.result, raised |-> r.raised,
   was_none |-> vindex.vector_store = "None", external_raised |-> external_raised,
   up |-> vindex.up, mid_reindex |-> \E c \in Callers : vindex.pc[c] = "cleared"]
Served(r, call) ==
  vindex' = [r.v EXCEPT !.last = call]
RestUnchanged == UNCHANGED <<MemVars, segmenter, scorer, retrieval, builder, app>>
\* room in the collection for one more ingestion of the file
HasRoom(f) ==
  vindex.vector_store = "None" \/ Count(vindex.collection) + vindex.file_chunks[f] <= MaxDocs

IngestOf(op, f) ==
  /\ HasRoom(f)
  /\ \E load_ok, add_ok \in Outcomes(vindex.up) :
       Served(ingest(vindex, op, f, load_ok, add_ok),
              VectorCall(op, f, ingest(vindex, op, f, load_ok, add_ok),
                         (op # "ingest_text_content" /\ ~load_ok)
                         \/ (vindex.vector_store # "None" /\ ~add_ok)))
  /\ RestUnchanged

Ingest == \E op \in IngestOps, f \in Files : IngestOf(op, f)

SemanticSearch ==
  /\ \E k \in 1..MaxDocs, search_ok \in Outcomes(vindex.up) :
       Served(semantic_search(vindex, k, search_ok),
              VectorCall("semantic_search", "kb", semantic_search(vindex, k, search_ok),
                         vindex.vector_store # "None" /\ ~search_ok))
  /\ RestUnchanged

VectorRetrieveContext ==
  /\ \E k \in 1..MaxDocs, search_ok \in Outcomes(vindex.up) :
       Served(vector_retrieve_context(vindex, k, search_ok),
              VectorCall("retrieve_context", "kb",
                         vector_retrieve_context(vindex, k, search_ok),
                         vindex.vector_store # "None" /\ ~search_ok))
  /\ RestUnchanged

ClearStore ==
  /\ \E delete_ok, load_ok \in Outcomes(vindex.up) :
       Served(clear_store(vindex, delete_ok, load_ok),
              VectorCall("clear_store", "kb", clear_store(vindex, delete_ok, load_ok),
                         vindex.vector_store # "None" /\ (~delete_ok \/ ~load_ok)))
  /\ RestUnchanged

GetCollectionCount ==
  /\ \E count_ok \in Outcomes(vindex.up) :
       Served(get_collection_count(vindex, count_ok),
              VectorCall("get_collection_count", "kb",
                         get_collection_count(vindex, count_ok),
                         vindex.vector_store # "None" /\ ~count_ok))
  /\ RestUnchanged

InitializeVectorStoreFromKb ==
  /\ \E suffix \in Suffixes, f \in Files :
       \E delete_ok, reload_ok, load_ok, add_ok \in Outcomes(vindex.up) :
         LET cleared == clear_store(vindex, delete_ok, reload_ok).v
             r == initialize_vector_store_from_kb(vindex, suffix, f, delete_ok,
                                                  reload_ok, load_ok, add_ok)
             raised_in_clear ==
               vindex.vector_store # "None" /\ (~delete_ok \/ ~reload_ok)
             raised_in_ingest ==
               suffix # ".doc" /\ (~load_ok \/ (cleared.vector_store # "None" /\ ~add_ok))
         IN /\ Count(r.v.collection) <= MaxDocs
            /\ Served(r, VectorCall("initialize", f, r,
                                    raised_in_clear \/ raised_in_ingest))
  /\ RestUnchanged

\* the external services fail, and come back
GoDown ==
  /\ vindex.up
  /\ vindex' = [vindex EXCEPT !.up = FALSE]
  /\ RestUnchanged
Recover ==
  /\ ~vindex.up
  /\ vindex' = [vindex EXCEPT !.up = TRUE]
  /\ RestUnchanged

VectorNext ==
  \/ Ingest
  \/ SemanticSearch
  \/ VectorRetrieveContext
  \/ ClearStore
  \/ GetCollectionCount
  \/ InitializeVectorStoreFromKb
  \/ GoDown
  \/ Recover

VectorSpec == VectorInit /\ [][VectorNext]_vars

\* the behaviours in which the external services, once back, stay back, are
\* those of interest for recovery; ingestion of a file with chunks is always
\* attempted again
IngestSome ==
  \E op \in IngestOps, f \in Files : vindex.file_chunks[f] > 0 /\ IngestOf(op, f)
LiveVectorSpec ==
  VectorInit /\ [][VectorNext]_vars /\ WF_vars(Recover) /\ WF_vars(IngestSome)

\* two callers of initialize_vector_store_from_kb("kb.txt") on the one
\* manager of get_vector_store(), and a caller of semantic_search; the
\* module takes no lock, so a caller may be suspended between clear_store
\* and the ingestion. The external services are available throughout.
ConcVectorInit ==
  /\ MemOnlyInit
  /\ vindex \in {[IdleVindex EXCEPT !.vector_store = "Chroma",
                                    !.collection = c, !.file_chunks = n] :
                   c \in Collections,
                   n \in {m \in [Files -> 0..MaxFileChunks] : m["kb"] > 0}}

ReindexClear(c) ==
  /\ vindex.pc[c] = "idle"
  /\ LET r == clear_store(vindex, TRUE, TRUE)
     IN vindex' = [r.v EXCEPT !.last = VectorCall("clear_store", "kb", r, FALSE),
                              !.pc[c] = "cleared"]
  /\ RestUnchanged

ReindexIngest(c) ==
  /\ vindex.pc[c] = "cleared"
  /\ LET r == ingest_by_suffix(vindex, ".txt", "kb", TRUE, TRUE)
     IN vindex' = [r.v EXCEPT !.last = VectorCall("ingest_text_file", "kb", r, FALSE),
                              !.pc[c] = "done",
                              !.result[c] = r.result]
  /\ RestUnchanged

ConcurrentSearch ==
  /\ \E k \in 1..MaxDocs :
       Served(semantic_search(vindex, k, TRUE),
              VectorCall("semantic_search", "kb", semantic_search(vindex, k, TRUE), FALSE))
  /\ RestUnchanged

ConcVectorNext ==
  \/ \E c \in Callers : ReindexClear(c)
  \/ \E c \in Callers : ReindexIngest(c)
  \/ ConcurrentSearch

ConcVectorSpec == ConcVectorInit /\ [][ConcVectorNext]_vars

\* ---------------------------------------------- properties of the assembly
\* the score of the chunk at a document position
ScoreAt(pos) == score_chunk(retrieval.query_tokens, retrieval.chunks[pos])
AcceptedScores == {ScoreAt(retrieval.accepted[i]) : i \in 1..Len(retrieval.accepted)}
\* what the chunks need with the allowance of every one of them
TotalNeed == Len(Join(BlankLine, retrieval.chunks)) + 2

\* C11: when a chunk with a positive score has been accepted, no accepted
\* chunk has score 0; and of a positive-score chunk and a zero-score chunk
\* that both fit in the budget, the output is the positive-score chunk alone.
ZeroScoreExclusion ==
  retrieval.pc = "returned" =>
    /\ (\E n \in AcceptedScores : n > 0) => 0 \notin AcceptedScores
    /\ \A a, b \in 1..Len(retrieval.chunks) :
         (/\ Len(retrieval.chunks) = 2
          /\ ScoreAt(a) > 0
          /\ ScoreAt(b) = 0
          /\ retrieval.budget >= TotalNeed)
         => retrieval.output = retrieval.chunks[a]

\* a zero-score chunk left out although the budget had room for every chunk
ZeroScoreExclusionWitness ==
  /\ retrieval.pc = "returned"
  /\ retrieval.budget > TotalNeed
  /\ \E n \in AcceptedScores : n > 0
  /\ \E pos \in 1..Len(retrieval.chunks) :
       /\ ScoreAt(pos) = 0
       /\ \A i \in 1..Len(retrieval.accepted) : retrieval.accepted[i] # pos

\* C12: when the top-ranked candidate is longer than the budget, the output
\* is the first `budget` characters of that candidate followed by "...", and
\* that candidate is the only one accepted.
FirstCandidateTruncation ==
  (/\ retrieval.pc = "returned"
   /\ retrieval.chunks # <<>>
   /\ Len(retrieval.scored_chunks[1].chunk) > retrieval.budget)
  => /\ retrieval.output = Take(retrieval.scored_chunks[1].chunk, retrieval.budget) \o Marker
     /\ retrieval.accepted = <<retrieval.scored_chunks[1].pos>>

\* C13: after the sort, scores descend, chunks with equal scores are in
\* document order, and the list holds every scored chunk once.
StableRanking ==
  (retrieval.pc \in {"sorted", "returned"} /\ retrieval.chunks # <<>>) =>
    LET ranked == retrieval.scored_chunks
    IN /\ Len(ranked) = Len(retrieval.chunks)
       /\ {ranked[i].pos : i \in 1..Len(ranked)} = 1..Len(retrieval.chunks)
       /\ \A i \in 1..Len(ranked) :
            /\ ranked[i].chunk = retrieval.chunks[ranked[i].pos]
            /\ ranked[i].score = ScoreAt(ranked[i].pos)
       /\ \A i, j \in 1..Len(ranked) :
            i < j => \/ ranked[i].score > ranked[j].score
                     \/ /\ ranked[i].score = ranked[j].score
                        /\ ranked[i].pos < ranked[j].pos

\* a sort that moved a chunk forward and kept two equal scores in place
StableRankingWitness ==
  /\ retrieval.pc = "sorted"
  /\ retrieval.scored_chunks[1].pos # 1
  /\ \E i, j \in 1..Len(retrieval.scored_chunks) :
       /\ i < j
       /\ retrieval.scored_chunks[i].score = retrieval.scored_chunks[j].score
       /\ retrieval.scored_chunks[i].chunk # retrieval.scored_chunks[j].chunk

\* C14: the output is empty exactly when there is no candidate, or every
\* candidate scores zero and none was accepted; when there is a candidate,
\* one is accepted, whole or cut, and the output is not empty.
EmptinessGuarantee ==
  retrieval.pc = "returned" =>
    /\ retrieval.output = <<>>
       <=> \/ retrieval.chunks = <<>>
           \/ /\ \A pos \in 1..Len(retrieval.chunks) : ScoreAt(pos) = 0
              /\ retrieval.accepted = <<>>
    /\ retrieval.chunks # <<>> => (retrieval.accepted # <<>> /\ retrieval.output # <<>>)

\* candidates that all score zero, with a budget that has room for nothing
EmptinessGuaranteeWitness ==
  /\ retrieval.pc = "returned"
  /\ retrieval.chunks # <<>>
  /\ retrieval.budget <= 0
  /\ \A pos \in 1..Len(retrieval.chunks) : ScoreAt(pos) = 0

\* C15 as stated: some candidates, query and budget make retrieve_context
\* return two or more chunks, none cut, in an output longer than the budget.
OvershootPossible ==
  retrieval.pc = "returned" =>
    \E c \in ChunkLists, q \in QueryTokenSets, b \in Budgets :
      LET r == assemble(sort_by_score(score_all(q, c)), b)
      IN /\ Len(r.accepted) >= 2
         /\ ~r.truncated
         /\ Len(r.output) > b

\* C15: when two or more chunks are accepted and none is cut, the joined
\* output is at most `budget` characters long: the 2-character allowance of
\* each accepted chunk pays for the separator that follows it.
NoOvershoot ==
  (/\ retrieval.pc = "returned"
   /\ Len(retrieval.accepted) >= 2
   /\ ~retrieval.truncated)
  => /\ Len(retrieval.output) <= retrieval.budget
     /\ Len(retrieval.output) = retrieval.total_chars - 2

\* two or more whole chunks that fill the budget to the last character
NoOvershootWitness ==
  /\ retrieval.pc = "returned"
  /\ Len(retrieval.accepted) >= 2
  /\ ~retrieval.truncated
  /\ Len(retrieval.output) = retrieval.budget

\* the running total after the first j ranked candidates are accepted
RECURSIVE TotalAfter(_, _)
TotalAfter(ranked, j) ==
  IF j = 0 THEN 0 ELSE TotalAfter(ranked, j - 1) + Len(ranked[j].chunk) + 2

\* C30 (budget >= 0): the accepted chunks are the first k of the ranked
\* list, all of positive score if there are several; the running total is
\* below the budget before each acceptance after the first; and when a
\* positive-score candidate is left, assembly stopped because the first chunk
\* was cut, or the total reached the budget, or the next candidate does not
\* fit.
PrefixAssembly ==
  (retrieval.pc = "returned" /\ retrieval.chunks # <<>> /\ retrieval.budget >= 0) =>
    LET ranked == retrieval.scored_chunks
        k == Len(retrieval.accepted)
    IN /\ k <= Len(ranked)
       /\ \A i \in 1..k : retrieval.accepted[i] = ranked[i].pos
       /\ k >= 2 => \A i \in 1..k : ranked[i].score > 0
       /\ \A j \in 1..(k - 1) : TotalAfter(ranked, j) < retrieval.budget
       /\ ~retrieval.truncated => retrieval.total_chars = TotalAfter(ranked, k)
       /\ (k < Len(ranked) /\ ranked[k + 1].score > 0)
          => \/ retrieval.truncated
             \/ retrieval.total_chars >= retrieval.budget
             \/ retrieval.total_chars + Len(ranked[k + 1].chunk) > retrieval.budget

\* a candidate that did not fit, with a shorter positive-score candidate
\* after it that would have
PrefixAssemblyWitness ==
  /\ retrieval.pc = "returned"
  /\ retrieval.budget >= 0
  /\ ~retrieval.truncated
  /\ LET ranked == retrieval.scored_chunks
         k == Len(retrieval.accepted)
     IN /\ k + 2 <= Len(ranked)
        /\ retrieval.total_chars < retrieval.budget
        /\ ranked[k + 2].score > 0
        /\ retrieval.total_chars + Len(ranked[k + 2].chunk) <= retrieval.budget

\* C31: when there is a chunk and no chunk shares a token with the query,
\* the first chunk in document order is the only one accepted; it is
\* returned whole when it fits the budget, whatever room is left, and
\* otherwise cut and followed by "...", to `budget` characters when the
\* budget is not negative.
AllZeroFallback ==
  (/\ retrieval.pc = "returned"
   /\ retrieval.chunks # <<>>
   /\ \A pos \in 1..Len(retrieval.chunks) : ScoreAt(pos) = 0)
  => LET first == retrieval.chunks[1]
     IN /\ retrieval.accepted = <<1>>
        /\ IF Len(first) <= retrieval.budget
           THEN retrieval.output = first
           ELSE /\ \E n \in 0..(Len(first) - 1) :
                     retrieval.output = Take(first, n) \o Marker
                /\ retrieval.budget >= 0 =>
                     retrieval.output = Take(first, retrieval.budget) \o Marker

\* several chunks, none sharing a token with the query, and a budget with
\* room for all of them
AllZeroFallbackWitness ==
  /\ retrieval.pc = "returned"
  /\ Len(retrieval.chunks) >= 2
  /\ retrieval.query_tokens # {}
  /\ \A pos \in 1..Len(retrieval.chunks) : ScoreAt(pos) = 0
  /\ retrieval.chunks[2] # retrieval.chunks[1]
  /\ retrieval.budget > TotalNeed
  /\ retrieval.output = retrieval.chunks[1]

\* C32: for a budget that is not negative the output is at most
\* budget + 3 characters long, 3 being the length of "...".
GlobalOutputBound ==
  (retrieval.pc = "returned" /\ retrieval.budget >= 0) =>
    Len(retrieval.output) <= retrieval.budget + Len(Marker)

\* a cut chunk: the bound is met exactly
GlobalOutputBoundWitness ==
  /\ retrieval.pc = "returned"
  /\ retrieval.budget > 0
  /\ retrieval.truncated
  /\ Len(retrieval.chunks) >= 2
  /\ Len(retrieval.output) = retrieval.budget + 3

\* ------------------------------- properties of tokenize_simple, score_chunk
\* C19: tokenizing the space-joined tokens of a text gives the text's token
\* set again, and so does tokenizing the text with the case of a letter
\* changed or with a punctuation character added at a token edge.
TokenizeInsensitive ==
  scorer.pc = "rescored" => scorer.tokens = scorer.prev_tokens

\* a text with a capital letter and a punctuation character whose edited
\* form has been tokenized
TokenizeInsensitiveWitness ==
  /\ scorer.pc = "rescored"
  /\ scorer.edit \in {"case", "punctuation"}
  /\ Cardinality(scorer.tokens) >= 2
  /\ \E i \in 1..Len(scorer.text) : IsUpper(scorer.text[i])
  /\ \E i \in 1..Len(scorer.text) : scorer.text[i] \in Punctuation

\* C20: the score is the number of query tokens among the chunk's tokens, it
\* lies in 0..|query_tokens|, and a chunk with the same token set as another
\* gets the same score whatever the order or repetition of its tokens.
ScoreIsOverlap ==
  scorer.pc \in {"scored", "rescored"} =>
    /\ scorer.score =
         Cardinality({q \in scorer.query_tokens : q \in tokenize_simple(scorer.text)})
    /\ scorer.score \in 0..Cardinality(scorer.query_tokens)
    /\ (scorer.pc = "rescored" /\ scorer.tokens = scorer.prev_tokens)
       => scorer.score = scorer.prev_score

\* a chunk with a token repeated and its tokens in another order than in the
\* text it came from, scoring 2
ScoreIsOverlapWitness ==
  /\ scorer.pc = "rescored"
  /\ scorer.edit = "rejoin"
  /\ scorer.score = 2
  /\ Len(Words(scorer.text)) > Cardinality(scorer.tokens)

\* ------------------------------------------------- properties of chunk_text
RECURSIVE SelectNonEmpty(_)
SelectNonEmpty(parts) ==
  IF parts = <<>> THEN <<>>
  ELSE IF Head(parts) = <<>> THEN SelectNonEmpty(Tail(parts))
  ELSE <<Head(parts)>> \o SelectNonEmpty(Tail(parts))

\* the non-empty stripped paragraphs of a text, in order
StrippedParagraphs(text) ==
  LET paragraphs == Paragraphs(text)
  IN SelectNonEmpty([i \in 1..Len(paragraphs) |-> Strip(paragraphs[i])])

\* the text's non-empty stripped paragraphs joined by a blank line
Normalized(text) == Join(BlankLine, StrippedParagraphs(text))

\* the chunk text that a group of paragraphs makes
GroupText(text, group) ==
  LET paragraphs == Paragraphs(text)
  IN Join(BlankLine, [j \in 1..Len(group) |-> Strip(paragraphs[group[j]])])

\* C16: a non-blank text whose length is at most `size` gives exactly one
\* chunk, the text's non-empty stripped paragraphs joined by a blank line,
\* whether the paragraphs are separated by blank lines or by single newlines.
SmallTextOneChunk ==
  (/\ segmenter.pc = "returned"
   /\ ~IsBlank(segmenter.text)
   /\ Len(segmenter.text) <= segmenter.size)
  => segmenter.chunks = <<Normalized(segmenter.text)>>

\* C17: every paragraph of the text that is longer than `size` is a chunk of
\* the result by itself: the chunk built from it is built from it alone and
\* is exactly that paragraph.
OversizedParagraphKeptWhole ==
  segmenter.pc = "returned" =>
    LET paragraphs == Paragraphs(segmenter.text)
    IN /\ Len(segmenter.groups) = Len(segmenter.chunks)
       /\ \A k \in 1..Len(segmenter.chunks) :
            segmenter.chunks[k] = GroupText(segmenter.text, segmenter.groups[k])
       /\ \A i \in 1..Len(paragraphs) :
            (~IsBlank(segmenter.text) /\ Len(Strip(paragraphs[i])) > segmenter.size
             /\ Strip(paragraphs[i]) # <<>>)
            => \E k \in 1..Len(segmenter.chunks) :
                 /\ segmenter.groups[k] = <<i>>
                 /\ segmenter.chunks[k] = Strip(paragraphs[i])

\* an oversized paragraph after a shorter one, with a size that lets short
\* paragraphs merge
OversizedParagraphWitness ==
  /\ segmenter.pc = "returned"
  /\ segmenter.size >= 4
  /\ Len(segmenter.chunks) >= 2
  /\ Len(segmenter.chunks[1]) <= 2
  /\ \E k \in 2..Len(segmenter.chunks) : Len(segmenter.chunks[k]) > segmenter.size

\* C18: an empty or whitespace-only text gives no chunk, and no chunk of any
\* result is empty or whitespace-only.
NoBlankChunk ==
  segmenter.pc = "returned" =>
    /\ IsBlank(segmenter.text) => segmenter.chunks = <<>>
    /\ \A k \in 1..Len(segmenter.chunks) : ~IsBlank(segmenter.chunks[k])

\* a text with a whitespace-only paragraph next to a real one
NoBlankChunkWitness ==
  /\ segmenter.pc = "returned"
  /\ segmenter.chunks # <<>>
  /\ LET paragraphs == Paragraphs(segmenter.text)
     IN \E i \in 1..Len(paragraphs) : paragraphs[i] # <<>> /\ IsBlank(paragraphs[i])

\* the paragraphs (by index) that chunk_text keeps, in document order
KeptParagraphs(text) ==
  LET paragraphs == Paragraphs(text)
  IN SelectSeq([i \in 1..Len(paragraphs) |-> i],
               LAMBDA i : Strip(paragraphs[i]) # <<>>)
RECURSIVE Concat(_)
Concat(seqs) == IF seqs = <<>> THEN <<>> ELSE Head(seqs) \o Concat(Tail(seqs))

\* C28: a chunk of two or more paragraphs is at most `size` long, and each
\* chunk but the last was flushed because its length, the length of the next
\* chunk's first paragraph and 2 together exceed `size`.
GreedySizeBound ==
  (segmenter.pc = "returned" /\ segmenter.chunks # <<>>) =>
    LET paragraphs == Paragraphs(segmenter.text)
        chunks == segmenter.chunks
        groups == segmenter.groups
    IN /\ \A k \in 1..Len(chunks) :
            Len(groups[k]) >= 2 => Len(chunks[k]) <= segmenter.size
       /\ \A k \in 1..(Len(chunks) - 1) :
            Len(chunks[k]) + Len(Strip(paragraphs[groups[k + 1][1]])) + 2 > segmenter.size

\* a chunk of two paragraphs flushed before a third paragraph
GreedySizeBoundWitness ==
  /\ segmenter.pc = "returned"
  /\ Len(segmenter.chunks) >= 2
  /\ Len(segmenter.groups[1]) >= 2

\* C29: the chunks joined by a blank line are the text's non-empty stripped
\* paragraphs joined by a blank line; the paragraphs the chunks were built
\* from are every such paragraph once, in document order.
ChunkingLosesNothing ==
  segmenter.pc = "returned" =>
    /\ Join(BlankLine, segmenter.chunks) = Normalized(segmenter.text)
    /\ IsBlank(segmenter.text) => segmenter.groups = <<>>
    /\ ~IsBlank(segmenter.text)
       => Concat(segmenter.groups) = KeptParagraphs(segmenter.text)

\* several chunks, one of several paragraphs, from a text that is not its
\* own normal form
ChunkingLosesNothingWitness ==
  /\ segmenter.pc = "returned"
  /\ Len(segmenter.chunks) >= 2
  /\ \E k \in 1..Len(segmenter.chunks) : Len(segmenter.groups[k]) >= 2
  /\ Normalized(segmenter.text) # segmenter.text

\* ------------------------------------------------ properties of build_query
\* the decimal numeral of an age part
Numeral(n) ==
  IF n < 10 THEN <<Digits[n + 1]>> ELSE <<Digits[(n \div 10) + 1], Digits[(n % 10) + 1]>>
\* "<n> <unit>", with an "s" iff n > 1
Phrase(n, unit) == Numeral(n) \o <<" ">> \o unit \o (IF n > 1 THEN <<"s">> ELSE <<>>)
\* the parts the claim lists, in its order
ExpectedParts(age, domain, extra) ==
  LET y == age.val \div 12
      m == age.val % 12
      given(x) == x.some /\ x.val # <<>>
  IN <<IF age.some /\ y > 0 THEN Phrase(y, <<"y", "e", "a", "r">>) ELSE <<>>,
       IF age.some /\ m > 0 THEN Phrase(m, <<"m", "o", "n", "t", "h">>) ELSE <<>>,
       IF age.some THEN Numeral(age.val) \o <<" ", "m", "o", "n", "t", "h", "s">> ELSE <<>>,
       IF given(domain) THEN domain.val ELSE <<>>,
       IF given(domain) THEN Replace(Lower(domain.val), "_", " ") ELSE <<>>,
       IF given(extra) THEN extra.val ELSE <<>>>>

\* C23: build_query returns, joined by single spaces and in this order, the
\* year phrase (years > 0), the month phrase (months > 0), "<age> months"
\* whenever an age is given, the domain as given and its lower-cased
\* underscore-to-space variant, and the free text; absent and empty inputs
\* add nothing.
QueryConstruction ==
  builder.pc = "returned" =>
    builder.query =
      Join(Space, SelectNonEmpty(ExpectedParts(builder.age_months, builder.domain,
                                               builder.extra_info)))

\* a query of all six parts, both age phrases in the plural
QueryConstructionWitness ==
  /\ builder.pc = "returned"
  /\ builder.age_months.some
  /\ builder.age_months.val \div 12 > 1
  /\ builder.age_months.val % 12 > 1
  /\ builder.domain.some /\ \E i \in 1..Len(builder.domain.val) : builder.domain.val[i] = "_"
  /\ builder.extra_info.some /\ builder.extra_info.val # <<>>

\* ------------------------------------------- properties of retrieve_context
\* C21: with the knowledge-base file missing, unreadable, empty or
\* whitespace-only, retrieve_context returns "" and raises nothing, whatever
\* the query inputs and the budget.
GracefulDegradation ==
  (/\ retrieval.pc \in {"returned", "raised"}
   /\ \/ retrieval.kb_file.kind \in {"missing", "unreadable"}
      \/ IsBlank(retrieval.kb_file.text))
  => /\ retrieval.pc = "returned"
     /\ ~retrieval.raised
     /\ retrieval.output = <<>>

\* a call that met a file it could not read, with a full query
GracefulDegradationWitness ==
  /\ retrieval.pc = "returned"
  /\ retrieval.kb_file.kind = "unreadable"
  /\ retrieval.age_months.some /\ retrieval.domain.some /\ retrieval.extra_info.some

\* C22: a call with a negative budget returns no knowledge-base text: no
\* character of the file is in what it returns.
NegativeBudgetRejected ==
  (retrieval.pc = "returned" /\ retrieval.budget < 0)
  => \A i \in 1..Len(retrieval.output) :
       \A j \in 1..Len(retrieval.kb_text) : retrieval.output[i] # retrieval.kb_text[j]

\* ------------------------------------------ properties of the vector store
GuardedOps ==
  IngestOps \cup {"semantic_search", "retrieve_context", "get_collection_count"}

\* C24: when vector_store is None or an external load, embed or store call
\* raises, the ingest methods return 0, semantic_search returns no document,
\* retrieve_context returns the empty string and get_collection_count
\* returns 0; and none of them raises, whatever happened.
UnavailabilityNotFatal ==
  vindex.last.op \in GuardedOps =>
    /\ ~vindex.last.raised
    /\ (vindex.last.was_none \/ vindex.last.external_raised) => vindex.last.result = 0
UnavailabilityNotFatalWitness ==
  /\ vindex.last.op \in IngestOps
  /\ ~vindex.last.was_none
  /\ vindex.last.external_raised
  /\ vindex.file_chunks[vindex.last.file] > 0
  /\ vindex.last.result = 0
  /\ ~vindex.last.raised

\* C25: whenever initialize_vector_store_from_kb returns n > 0 the store
\* holds exactly the n chunks of that file and nothing of earlier
\* ingestions, whatever the store held and whatever delete_collection did.
ReindexFromZero ==
  vindex.last.op = "initialize" /\ vindex.last.result > 0 =>
    /\ vindex.collection[vindex.last.file] = vindex.last.result
    /\ Count(vindex.collection) = vindex.last.result

\* C26: when both callers of initialize_vector_store_from_kb on the same
\* n-chunk file are done the store holds exactly n chunks, and no
\* semantic_search is served between a caller's clear_store and the end of
\* its ingestion.
ReindexExclusive ==
  /\ (\A c \in Callers : vindex.pc[c] = "done") =>
       Count(vindex.collection) = vindex.file_chunks["kb"]
  /\ vindex.last.op = "semantic_search" => ~vindex.last.mid_reindex

\* C27: if the external services end up available, then whenever
\* vector_store is None an ingestion through the manager eventually stores
\* chunks and returns a positive count.
StoredChunks ==
  vindex.last.op \in IngestOps /\ vindex.last.result > 0
UnavailabilityNotPermanent ==
  (<>[](vindex.up)) => [](vindex.vector_store = "None" => <>StoredChunks)

====
